---- MODULE Spec2Model ----
(***************************************************************************)
(* A model of the secret write and read protocol of the Secret Server SDK  *)
(* (package server): CreateSecret / UpdateSecret / writeSecret,            *)
(* separateFileFields, updateFiles, uploadFile, Secret, and the template   *)
(* lookups they use.  One client call runs at a time (the SDK is           *)
(* synchronous); every request the call issues is appended to reqs, and    *)
(* the response of the server is consumed by the next action.              *)
(* DeleteSecret is the one-request call beside them.                       *)
(* SpecUpload runs uploadFile on its own over the filenames a file field   *)
(* can carry; SpecToken runs accessResource and getAccessToken for the     *)
(* Servers of one process, which share the token cache; SpecCalls runs     *)
(* New and the lookups of a template and of a secret on their own.         *)
(***************************************************************************)
EXTENDS Integers, Sequences, FiniteSets, TLC

VARIABLES
    template,    \* the SecretTemplate the server holds (SecretTemplate.Fields)
    srv,         \* the secret the server holds: [ID, val, FolderID, SiteID, SecretTemplateID, Active]
    pc,          \* position of the running client call
    resp,        \* the err of the call site that consumed the last response ("" is nil)
    method,      \* "POST" (CreateSecret), "PUT" (UpdateSecret), "GET" (Secret), "DELETE" (DeleteSecret), "" when idle
    arg,         \* the Secret value the caller passed (the caller's copy)
    secret,      \* writeSecret's parameter `secret` (a copy: passed by value)
    classifier,  \* whether writeSecret called separateFileFields: "", "ran", "skipped"
    fileFields,  \* writeSecret's local fileFields
    writtenID,   \* writtenSecret.ID / the id Secret(id) reads
    rd,          \* Secret()'s local secret.Fields being assembled
    idx,         \* the loop index of updateFiles / of Secret()'s range loop
    reqs,        \* the requests this call has issued, in order
    result,      \* what the call returned: [err, Fields, FolderID, SiteID, SecretTemplateID, Active]; err = "" is a nil error
    up,          \* an uploadFile call on its own: [pc, fileField, req]
    env,         \* the process environment variable SS_AT (the token cache)
    now,         \* time.Now().Unix()
    cfg,         \* per caller, the Configuration of its Server
    call,        \* per caller, its accessResource call: [pc, resource, token, cached, err, trace]
    grants,      \* the access grants the token endpoints have issued, in order
    q,           \* a call of New or of a lookup on its own: [op, config, t, fields, id, name, out]
    held         \* what the server held when the running call began: [val, record]

secretVars == <<template, srv, pc, resp, method, arg, secret, classifier, fileFields, writtenID, rd, idx, reqs, result, held>>
uploadVars == <<up>>
tokenVars == <<env, now, cfg, call, grants>>
lookupVars == <<q>>

vars == <<secretVars, uploadVars, tokenVars, lookupVars>>

----------------------------------------------------------------------------
(* Bounds and input sets *)

MaxFields == 2

FieldIDs == {1, 2, 9}          \* 9 is on no template
Slugs == {"", "a", "z"}        \* "z" is on no template
Values == {"", "x"}

\* SecretField, with the members the write path reads
SecretFields == [FieldID : FieldIDs, Slug : Slugs, ItemValue : Values]

RECURSIVE SeqsUpTo(_, _)
SeqsUpTo(S, n) ==
    IF n = 0 THEN {<<>>}
    ELSE LET shorter == SeqsUpTo(S, n - 1)
         IN  shorter \cup {Append(s, e) : s \in {t \in shorter : Len(t) = n - 1}, e \in S}

\* *SshKeyArgs: present = FALSE is the nil pointer
NilArgs == [present |-> FALSE, GenerateSshKeys |-> FALSE, GeneratePassphrase |-> FALSE]
SshKeyArgsValues ==
    {NilArgs} \cup
    [present : {TRUE}, GenerateSshKeys : BOOLEAN, GeneratePassphrase : BOOLEAN]

\* SecretTemplateField: ID, slug, and the is-file and is-password flags
TField(id, slug, isFile, isPassword) ==
    [SecretTemplateFieldID |-> id, FieldSlugName |-> slug,
     IsFile |-> isFile, IsPassword |-> isPassword]

\* Templates the server may hold; IDs and slugs are unique within each
Templates ==
    { << TField(1, "a", FALSE, TRUE), TField(2, "b", TRUE, FALSE) >>,
      << TField(1, "a", TRUE, FALSE), TField(2, "b", FALSE, FALSE) >>,
      << TField(1, "a", TRUE, FALSE), TField(2, "b", TRUE, FALSE) >> }

SecretIDs == {1, 2}

\* Secret values a caller can pass: ID, Fields (nil or a slice), SshKeyArgs
Secrets(ids) ==
    { [ID |-> i, Fields |-> f, FieldsNil |-> n, SshKeyArgs |-> a] :
        i \in ids, f \in SeqsUpTo(SecretFields, MaxFields),
        n \in {FALSE}, a \in SshKeyArgsValues }
    \cup
    { [ID |-> i, Fields |-> <<>>, FieldsNil |-> TRUE, SshKeyArgs |-> a] :
        i \in ids, a \in SshKeyArgsValues }

\* the ID of the template the server holds
TemplateID == 1

\* where a secret is put, its FolderID and SiteID: a create puts it in one
\* place, an update moves it to another
PlaceCreated == [FolderID |-> 1, SiteID |-> 1]
PlaceUpdated == [FolderID |-> 2, SiteID |-> 3]

\* the secret s with the placement w and the template's ID
Placed(s, w) ==
    [ID |-> s.ID, Fields |-> s.Fields, FieldsNil |-> s.FieldsNil, SshKeyArgs |-> s.SshKeyArgs,
     FolderID |-> w.FolderID, SiteID |-> w.SiteID, SecretTemplateID |-> TemplateID]

\* CreateSecret is given a secret without an ID, UpdateSecret one with the ID
\* the server gives (the server may hold it or not); an update with a
\* directive that asks for generation comes with one field at most
CreateInputs == { Placed(s, PlaceCreated) : s \in Secrets({0}) }
UpdateInputs ==
    { Placed(s, PlaceUpdated) :
        s \in { u \in Secrets({1}) :
                  (u.SshKeyArgs.present /\ (u.SshKeyArgs.GenerateSshKeys \/ u.SshKeyArgs.GeneratePassphrase))
                      => Len(u.Fields) <= 1 } }

NoSecret ==
    [ID |-> 0, Fields |-> <<>>, FieldsNil |-> TRUE, SshKeyArgs |-> NilArgs,
     FolderID |-> 0, SiteID |-> 0, SecretTemplateID |-> 0]

\* Filenames a file field can carry: a letter, a digit, the dot, the hyphen
MaxNameLen == 3
Chars == {"k", "7", ".", "-"}
Filenames == SeqsUpTo(Chars, MaxNameLen)

\* the file fields uploadFile is given on its own
UploadInputs == { [Slug |-> "a", ItemValue |-> "x", Filename |-> f] : f \in Filenames }

\* Templates the lookups are asked about, IDs and slugs unique or not
MaxTemplateLen == 2
LookupTemplates ==
    SeqsUpTo({ TField(i, g, FALSE, FALSE) : i \in {1, 2}, g \in {"a", "b"} }, MaxTemplateLen)
LookupIds == {1, 2, 9}

\* Templates whose fields may share a slug and differ in the is-file flag
DuplicateTemplates ==
    SeqsUpTo({ TField(i, g, f, FALSE) : i \in {1, 2}, g \in {"a", "b"}, f \in BOOLEAN },
             MaxTemplateLen)

\* Fields classified against them: addressed by slug, or by field ID
ClassifiedFields ==
    [FieldID : {0}, Slug : {"a", "b"}, ItemValue : {"x"}]
        \cup [FieldID : {1, 2}, Slug : {""}, ItemValue : {"x"}]
ClassifiedSecrets == SeqsUpTo(ClassifiedFields, MaxFields)
LookupNames == {"", "a", "b", "z"}

\* Fields of the secrets Field and FieldById are asked about
AccessFields == [FieldID : {1, 2}, FieldName : {"", "a"}, Slug : {"a", "b"}, ItemValue : {"x", "y"}]
AccessSecrets == SeqsUpTo(AccessFields, MaxFields)

\* Configurations New is given; a path is the sequence of its segments
NoConfig == [ServerURL |-> "", Tenant |-> "", TLD |-> "", apiPathURI |-> <<>>, tokenPathURI |-> <<>>]
NewConfigs ==
    [ServerURL : {"", "https://a"}, Tenant : {"", "acme"}, TLD : {"", "eu"},
     apiPathURI : {<<>>, <<"", "custom", "">>}, tokenPathURI : {<<>>, <<"", "tok">>}]

NoOut == [found |-> FALSE, id |-> 0, value |-> "", err |-> "", server |-> <<>>]
NoQuery ==
    [op |-> "", config |-> NoConfig, t |-> <<>>, fields |-> <<>>, id |-> 0, name |-> "",
     out |-> NoOut]

NoUpload == [pc |-> "off", fileField |-> [Slug |-> "", ItemValue |-> "", Filename |-> <<>>], req |-> <<>>]

----------------------------------------------------------------------------
(* Template Index: linear scans, first match wins *)

RECURSIVE ScanId(_, _, _)
ScanId(t, fieldId, i) ==
    IF i > Len(t) THEN 0
    ELSE IF fieldId = t[i].SecretTemplateFieldID THEN i
    ELSE ScanId(t, fieldId, i + 1)

RECURSIVE ScanSlug(_, _, _)
ScanSlug(t, slug, i) ==
    IF i > Len(t) THEN 0
    ELSE IF slug = t[i].FieldSlugName THEN i
    ELSE ScanSlug(t, slug, i + 1)

\* faulty variant: an ID the template lacks is reported found, with the empty slug
FieldIdToSlugAlwaysFound(t, fieldId) ==
    LET i == ScanId(t, fieldId, 1)
    IN  IF i = 0 THEN [slug |-> "", found |-> TRUE]
        ELSE [slug |-> t[i].FieldSlugName, found |-> TRUE]

FieldIdToSlug(t, fieldId) ==
    LET i == ScanId(t, fieldId, 1)
    IN  IF i = 0 THEN [slug |-> "", found |-> FALSE]
        ELSE [slug |-> t[i].FieldSlugName, found |-> TRUE]

\* the last field of t[1..i] with the slug
RECURSIVE ScanSlugBack(_, _, _)
ScanSlugBack(t, slug, i) ==
    IF i = 0 THEN 0
    ELSE IF slug = t[i].FieldSlugName THEN i
    ELSE ScanSlugBack(t, slug, i - 1)

\* faulty variant: the last field with the slug is returned
GetFieldLast(t, slug) ==
    LET i == ScanSlugBack(t, slug, Len(t))
    IN  [index |-> i, found |-> i # 0]

\* GetField returns the index of the field (0 for nil) and found
GetField(t, slug) ==
    LET i == ScanSlug(t, slug, 1)
    IN  [index |-> i, found |-> i # 0]

\* faulty variant: the position of the field is returned for its ID
FieldSlugToIdPosition(t, slug) ==
    LET g == GetField(t, slug)
    IN  IF g.found THEN [id |-> g.index, found |-> TRUE]
        ELSE [id |-> 0, found |-> FALSE]

FieldSlugToId(t, slug) ==
    LET g == GetField(t, slug)
    IN  IF g.found THEN [id |-> t[g.index].SecretTemplateFieldID, found |-> TRUE]
        ELSE [id |-> 0, found |-> FALSE]

----------------------------------------------------------------------------
(* Secret.Field and Secret.FieldById: linear scans, first match wins *)

RECURSIVE ScanName(_, _, _)
ScanName(fields, fieldName, i) ==
    IF i > Len(fields) THEN 0
    ELSE IF fieldName = fields[i].FieldName \/ fieldName = fields[i].Slug THEN i
    ELSE ScanName(fields, fieldName, i + 1)

RECURSIVE ScanFieldId(_, _, _)
ScanFieldId(fields, fieldId, i) ==
    IF i > Len(fields) THEN 0
    ELSE IF fieldId = fields[i].FieldID THEN i
    ELSE ScanFieldId(fields, fieldId, i + 1)

\* faulty variant: only the slug is compared
RECURSIVE ScanSlugOnly(_, _, _)
ScanSlugOnly(fields, fieldName, i) ==
    IF i > Len(fields) THEN 0
    ELSE IF fieldName = fields[i].Slug THEN i
    ELSE ScanSlugOnly(fields, fieldName, i + 1)

\* faulty variant: Field compares the slug only
FieldBySlug(fields, fieldName) ==
    LET i == ScanSlugOnly(fields, fieldName, 1)
    IN  IF i = 0 THEN [value |-> "", found |-> FALSE]
        ELSE [value |-> fields[i].ItemValue, found |-> TRUE]

Field(fields, fieldName) ==
    LET i == ScanName(fields, fieldName, 1)
    IN  IF i = 0 THEN [value |-> "", found |-> FALSE]
        ELSE [value |-> fields[i].ItemValue, found |-> TRUE]

FieldById(fields, fieldId) ==
    LET i == ScanFieldId(fields, fieldId, 1)
    IN  IF i = 0 THEN [value |-> "", found |-> FALSE]
        ELSE [value |-> fields[i].ItemValue, found |-> TRUE]

----------------------------------------------------------------------------
(* Field Classifier: Secret.separateFileFields *)

ErrFieldId == "field id is not defined on the secret template"
ErrFieldName == "field name is not defined on the secret template"
ErrSshOnUpdate == "SSH key and passphrase generation is only supported during secret creation"
ErrTransport == "transport error"
ErrParse == "error parsing response"

\* the slug the loop body works with: field.Slug, or the template's slug for
\* field.FieldID when field.Slug is empty
ResolveSlug(t, field) ==
    IF field.Slug = "" THEN FieldIdToSlug(t, field.FieldID)
    ELSE [slug |-> field.Slug, found |-> TRUE]

\* the template field the loop body classifies `field` by (0: not defined)
ResolveIndex(t, field) ==
    LET r == ResolveSlug(t, field)
    IN  IF ~r.found THEN 0 ELSE GetField(t, r.slug).index

\* faulty variant: the is-file test inverted
IsFileDefInverted(templateField) == ~templateField.IsFile

IsFileDef(templateField) == templateField.IsFile

RECURSIVE SeparateFrom(_, _, _, _, _)
SeparateFrom(fields, t, i, file, nonFile) ==
    IF i > Len(fields) THEN [err |-> "", file |-> file, nonFile |-> nonFile]
    ELSE LET field == fields[i]
             r == ResolveSlug(t, field)
             g == GetField(t, r.slug)
         IN  IF ~r.found THEN [err |-> ErrFieldId, file |-> <<>>, nonFile |-> <<>>]
             ELSE IF ~g.found THEN [err |-> ErrFieldName, file |-> <<>>, nonFile |-> <<>>]
             ELSE IF IsFileDef(t[g.index])
                  THEN SeparateFrom(fields, t, i + 1, Append(file, field), nonFile)
                  ELSE SeparateFrom(fields, t, i + 1, file, Append(nonFile, field))

\* faulty variant: a field the template does not define is taken for a general field
RECURSIVE SeparateLenientFrom(_, _, _, _, _)
SeparateLenientFrom(fields, t, i, file, nonFile) ==
    IF i > Len(fields) THEN [err |-> "", file |-> file, nonFile |-> nonFile]
    ELSE LET field == fields[i]
             k == ResolveIndex(t, field)
         IN  IF k # 0 /\ IsFileDef(t[k])
             THEN SeparateLenientFrom(fields, t, i + 1, Append(file, field), nonFile)
             ELSE SeparateLenientFrom(fields, t, i + 1, file, Append(nonFile, field))

separateFileFieldsLenient(s, t) == SeparateLenientFrom(s.Fields, t, 1, <<>>, <<>>)

\* returns (fileFields, nonFileFields, err); a list nothing was appended to is nil
separateFileFields(s, t) == SeparateFrom(s.Fields, t, 1, <<>>, <<>>)

----------------------------------------------------------------------------
(* Requests *)

Itoa(i) == CASE i = 0 -> "0" [] i = 1 -> "1" [] i = 2 -> "2" [] OTHER -> "n"

\* strings.Trim(path, "/") of urlFor, on a path given by its segments: the
\* empty leading and trailing segments go
RECURSIVE TrimPath(_)
TrimPath(p) ==
    IF p = <<>> THEN <<>>
    ELSE IF Head(p) = "" THEN TrimPath(Tail(p))
    ELSE IF p[Len(p)] = "" THEN TrimPath(SubSeq(p, 1, Len(p) - 1))
    ELSE p

Request(m, res, path, kind, body) ==
    [method |-> m, resource |-> res, path |-> TrimPath(path), kind |-> kind, body |-> body]

\* faulty variant: SshKeyArgs lacks omitempty, the key is always written
MarshalNoOmitEmpty(s) ==
    [ID |-> s.ID, Items |-> s.Fields, ItemsNull |-> s.FieldsNil,
     FolderID |-> s.FolderID, SiteID |-> s.SiteID, SecretTemplateID |-> s.SecretTemplateID,
     hasSshKeyArgs |-> TRUE, SshKeyArgs |-> s.SshKeyArgs]

\* faulty variant: the folder and the site are not written
MarshalWithoutPlacement(s) ==
    [ID |-> s.ID, Items |-> s.Fields, ItemsNull |-> s.FieldsNil,
     FolderID |-> 0, SiteID |-> 0, SecretTemplateID |-> s.SecretTemplateID,
     hasSshKeyArgs |-> s.SshKeyArgs.present, SshKeyArgs |-> s.SshKeyArgs]

\* json.Marshal(secret): Items is null for a nil slice; SshKeyArgs is omitempty
Marshal(s) ==
    [ID |-> s.ID, Items |-> s.Fields, ItemsNull |-> s.FieldsNil,
     FolderID |-> s.FolderID, SiteID |-> s.SiteID, SecretTemplateID |-> s.SecretTemplateID,
     hasSshKeyArgs |-> s.SshKeyArgs.present, SshKeyArgs |-> s.SshKeyArgs]

TemplateGet == Request("GET", "secret-templates", <<Itoa(TemplateID)>>, "none", <<>>)

\* accessResource(method, resource, path, secret) of writeSecret
WriteRequest(m, path, s) == Request(m, "secrets", path, "json", <<Marshal(s)>>)

\* the PATCH of updateFiles for a file field with an empty value
PatchRequest(secretId, element) ==
    Request("PATCH", "secrets", <<Itoa(secretId), "general">>, "json",
            << [Slug |-> element.Slug, Dirty |-> TRUE, ValueNull |-> TRUE] >>)

\* Filenames are sequences of characters
FileTxt == <<"F", "i", "l", "e", ".", "t", "x", "t">>
DotTxt == <<".", "t", "x", "t">>

\* \w of the regular expression, among the characters that occur
WordChars == {"k", "7", "_", "F", "i", "l", "e", "t", "x"}

\* faulty variant: the pattern reads [^.]* for [^.]+
MatchExtensionEmptyStem(s) ==
    \E d \in 1..Len(s) :
        /\ d < Len(s)
        /\ s[d] = "."
        /\ \A p \in (d + 1)..Len(s) : s[p] \in WordChars

\* regexp.Match("[^.]+\\.\\w+$", filename): somewhere a run i..d-1 of characters
\* other than the dot, then the dot at d, then word characters up to the end
MatchExtension(s) ==
    \E i \in 1..Len(s), d \in 1..Len(s) :
        /\ i < d /\ d < Len(s)
        /\ \A p \in i..(d - 1) : s[p] # "."
        /\ s[d] = "."
        /\ \A p \in (d + 1)..Len(s) : s[p] \in WordChars

\* the filename uploadFile gives the form file
UploadFilename(filename) ==
    IF filename = <<>> THEN FileTxt
    ELSE IF ~MatchExtension(filename) THEN filename \o DotTxt
    ELSE filename

\* fileField.Filename; a field value written without the member has none
FilenameOf(fileField) ==
    IF "Filename" \in DOMAIN fileField THEN fileField.Filename ELSE <<>>

\* the multipart PUT of uploadFile
UploadRequest(secretId, fileField) ==
    Request("PUT", "secrets", <<Itoa(secretId), "fields", fileField.Slug>>, "multipart",
            << [content |-> fileField.ItemValue,
                filename |-> UploadFilename(FilenameOf(fileField))] >>)

SecretGet(id) == Request("GET", "secrets", <<Itoa(id)>>, "none", <<>>)

\* faulty variant: the DELETE goes to the collection
DeleteRequestCollection(id) == Request("DELETE", "secrets", <<>>, "none", <<>>)

\* DeleteSecret's accessResource("DELETE", resource, strconv.Itoa(id), nil)
DeleteRequest(id) == Request("DELETE", "secrets", <<Itoa(id)>>, "none", <<>>)

FieldGet(id, element) ==
    Request("GET", "secrets", <<Itoa(id), "fields", element.Slug>>, "none", <<>>)

----------------------------------------------------------------------------
(* writeSecret's decisions *)

\* faulty variant: the guard forgets GeneratePassphrase
RejectsUpdateKeysOnly(args) == args.present /\ args.GenerateSshKeys

\* UpdateSecret's guard
RejectsUpdate(args) ==
    args.present /\ (args.GenerateSshKeys \/ args.GeneratePassphrase)

\* faulty variant: the classifier is skipped when either flag is set
RunsClassifierNoGeneration(args) ==
    ~args.present \/ (~args.GenerateSshKeys /\ ~args.GeneratePassphrase)

\* writeSecret's condition for running separateFileFields
RunsClassifier(args) == ~args.present \/ ~args.GenerateSshKeys

\* faulty variant: an SshKeyArgs with both members false is kept
NormalizeArgsKept(args) == args

\* writeSecret's removal of an SshKeyArgs with both members false
NormalizeArgs(args) ==
    IF args.present /\ ~args.GenerateSshKeys /\ ~args.GeneratePassphrase
    THEN NilArgs ELSE args

\* faulty variant: nil Fields are sent as they are
NonNilFieldsKept(s) == s

\* writeSecret's substitution of an empty slice for nil Fields
NonNilFields(s) == IF s.FieldsNil THEN [s EXCEPT !.Fields = <<>>, !.FieldsNil = FALSE] ELSE s

\* faulty variant: secret.Fields = generalFields is missing
PreparedAllFields(s, sep) ==
    NonNilFields([s EXCEPT !.SshKeyArgs = NormalizeArgs(s.SshKeyArgs)])

\* `secret` as writeSecret sends it, given the result sep of the classifier
Prepared(s, sep) ==
    LET classified ==
            IF RunsClassifier(s.SshKeyArgs)
            THEN [s EXCEPT !.Fields = sep.nonFile, !.FieldsNil = (sep.nonFile = <<>>)]
            ELSE s
        normalized == [classified EXCEPT !.SshKeyArgs = NormalizeArgs(classified.SshKeyArgs)]
    IN  NonNilFields(normalized)

\* faulty variant: the file fields are retained whether the classifier ran or not
RetainedAlways(s, sep) == sep.file

\* the file fields writeSecret retains for updateFiles
Retained(s, sep) == IF RunsClassifier(s.SshKeyArgs) THEN sep.file ELSE <<>>

\* faulty variant: CreateSecret passes the secret's ID as the path as well
WritePathByID(m, s) == <<Itoa(s.ID)>>

\* path of the write: "/" for CreateSecret, strconv.Itoa(secret.ID) for UpdateSecret
WritePath(m, s) == IF m = "POST" THEN <<"">> ELSE <<Itoa(s.ID)>>

----------------------------------------------------------------------------
(* The server the SDK talks to.  It holds one secret: its ID (0: none) and, *)
(* per template field, the stored value (for a file field: the content of  *)
(* the attachment, "" when there is none).  Items are resolved as the SDK  *)
(* resolves them: by slug, or by field ID when the slug is empty.          *)

Placeholder == "*** Not Valid For Display ***"
Generated == "generated"

NoVals == [i \in 1..2 |-> ""]
NoServerSecret == [ID |-> 0, val |-> NoVals, FolderID |-> 0, SiteID |-> 0, SecretTemplateID |-> 0, Active |-> FALSE]

\* the ID the server gives a created secret
NewID == 1

RECURSIVE StoreItems(_, _, _, _)
StoreItems(t, items, i, val) ==
    IF i > Len(items) THEN val
    ELSE LET k == ResolveIndex(t, items[i])
         IN  StoreItems(t, items, i + 1,
                 IF k # 0 /\ ~t[k].IsFile THEN [val EXCEPT ![k] = items[i].ItemValue] ELSE val)

\* the server rejects a PUT for a secret it does not hold; once it has deleted
\* its secret it takes no write (the ID of a deleted secret is not given again)
ServerAccepts(t, req) ==
    /\ srv.ID # 0 => srv.Active
    /\ req.method = "PUT" => (srv.ID # 0 /\ req.path = <<Itoa(srv.ID)>>)

\* the secret after the POST/PUT: the items' values stored; when the body asks
\* for it, the file fields hold generated keys and the password fields a
\* generated passphrase
ServerWrite(t, req) ==
    LET body == req.body[1]
        base == IF req.method = "POST" THEN NoVals ELSE srv.val
        stored == StoreItems(t, body.Items, 1, base)
        keys == body.hasSshKeyArgs /\ body.SshKeyArgs.GenerateSshKeys
        phrase == body.hasSshKeyArgs /\ body.SshKeyArgs.GeneratePassphrase
    IN  [ID |-> IF req.method = "POST" THEN NewID ELSE srv.ID,
         FolderID |-> body.FolderID, SiteID |-> body.SiteID,
         SecretTemplateID |-> body.SecretTemplateID, Active |-> TRUE,
         val |-> [i \in 1..2 |->
                    IF keys /\ t[i].IsFile THEN Generated
                    ELSE IF phrase /\ ~t[i].IsFile /\ t[i].IsPassword THEN Generated
                    ELSE stored[i]]]

\* the file field a path {id}/fields/{slug} or a PATCH entry addresses (0: none)
FileFieldAt(t, slug) ==
    LET g == GetField(t, slug)
    IN  IF g.found /\ t[g.index].IsFile THEN g.index ELSE 0

ServerAcceptsFile(t, req) ==
    /\ srv.ID # 0 /\ srv.Active
    /\ Len(req.path) >= 1 /\ req.path[1] = Itoa(srv.ID)
    /\ IF req.method = "PATCH" THEN FileFieldAt(t, req.body[1].Slug) # 0
       ELSE Len(req.path) = 3 /\ FileFieldAt(t, req.path[3]) # 0

ServerFile(t, req) ==
    IF req.method = "PATCH"
    THEN [srv EXCEPT !.val[FileFieldAt(t, req.body[1].Slug)] = ""]
    ELSE [srv EXCEPT !.val[FileFieldAt(t, req.path[3])] = req.body[1].content]

\* the server serves GET {id}/fields/{slug} for a file field of the secret it holds
ServerAcceptsFieldGet(t, req) ==
    /\ srv.ID # 0
    /\ Len(req.path) = 3 /\ req.path[1] = Itoa(srv.ID)
    /\ FileFieldAt(t, req.path[3]) # 0

\* the raw bytes of the response to GET {id}/fields/{slug}
ServerFieldContent(t, req) == srv.val[FileFieldAt(t, req.path[3])]

\* the server deletes the secret it holds: the record keeps its ID and is
\* inactive, its content is gone
ServerAcceptsDelete(req) ==
    /\ srv.ID # 0 /\ srv.Active
    /\ req.path = <<Itoa(srv.ID)>>

ServerDelete == [NoServerSecret EXCEPT !.ID = srv.ID]

\* the members of the primary record of GET secrets/{id} other than Items
ServerHead ==
    [FolderID |-> srv.FolderID, SiteID |-> srv.SiteID,
     SecretTemplateID |-> srv.SecretTemplateID, Active |-> srv.Active]

\* the primary record of GET secrets/{id}: one item per template field; a file
\* field with an attachment shows a placeholder value
ServerRecord(t) ==
    [i \in 1..Len(t) |->
        LET attached == t[i].IsFile /\ srv.val[i] # ""
        IN  [FieldID |-> t[i].SecretTemplateFieldID, Slug |-> t[i].FieldSlugName,
             ItemValue |-> IF attached THEN Placeholder ELSE srv.val[i],
             IsFile |-> t[i].IsFile,
             FileAttachmentID |-> IF attached THEN 7 ELSE 0,
             Filename |-> IF attached THEN "File.txt" ELSE ""]]

----------------------------------------------------------------------------
(* New(config) *)

defaultAPIPathURI == <<"", "api", "v1">>
defaultTokenPathURI == <<"", "oauth2", "token">>
defaultTLD == "com"

ErrConfig == "either ServerURL of Secret Server/Platform or Tenant of Secret Server Cloud must be set"

\* New's guard
RejectsConfig(config) ==
    \/ config.ServerURL = "" /\ config.Tenant = ""
    \/ config.ServerURL # "" /\ config.Tenant # ""

\* the Configuration of the Server New returns
Defaulted(config) ==
    [config EXCEPT
        !.TLD = IF @ = "" THEN defaultTLD ELSE @,
        !.apiPathURI = TrimPath(IF @ = <<>> THEN defaultAPIPathURI ELSE @),
        !.tokenPathURI = TrimPath(IF @ = <<>> THEN defaultTokenPathURI ELSE @)]

\* faulty variant: a Configuration with both ServerURL and Tenant is accepted
NewEitherSet(config) ==
    IF config.ServerURL = "" /\ config.Tenant = ""
    THEN [err |-> ErrConfig, server |-> <<>>]
    ELSE [err |-> "", server |-> <<Defaulted(config)>>]

\* New: (nil, error) or (&Server{config}, nil)
New(config) ==
    IF RejectsConfig(config)
    THEN [err |-> ErrConfig, server |-> <<>>]
    ELSE [err |-> "", server |-> <<Defaulted(config)>>]

----------------------------------------------------------------------------
(* Access tokens: accessResource and getAccessToken of the Servers of one  *)
(* process, which share the environment variable SS_AT.  A token is named  *)
(* by the base URL whose endpoint issued it and a serial number.           *)

MaxTime == 2
MaxGrants == 2

Callers == {1, 2}
BaseURLs == {"https://a", "https://b"}
\* Configuration: the base URL and Credentials.Token ("" when none is set)
Configs == { [ServerURL |-> u, Token |-> t] : u \in BaseURLs, t \in {"", "static"} }
Resources == {"secrets", "secret-templates", "users"}
\* values of expires_in in a grant
ExpiresIns == {0, 20}

NoToken == [by |-> "", n |-> 0]
\* s.Credentials.Token
StaticToken == [by |-> "config", n |-> 0]
\* the token the platform's AdvanceAuthentication answers with
PlatformToken(url) == [by |-> url, n |-> 0]

\* SS_AT: not set; set to ""; set to the JSON of a (token, expiry) pair
EnvUnset == [set |-> FALSE, json |-> <<>>]
EnvEmpty == [set |-> TRUE, json |-> <<>>]

ErrUnknownResource == "unknown resource"
ErrInvalidURL == "invalid URL"
ErrGrant == "grant response error"

\* faulty variant: the switch has no default branch
AllowedResourceAny(resource) == TRUE

\* accessResource's switch on the resource
AllowedResource(resource) == resource \in {"secrets", "secret-templates"}

\* the grant a token endpoint answers with, and when it did
Grant(token, expiresIn) == [access_token |-> token, expires_in |-> expiresIn, at |-> now]

\* faulty variant: nothing is stored
setCacheAccessTokenNothing(value, expiresIn) == [set |-> TRUE, json |-> <<>>]

\* the value setCacheAccessToken stores in SS_AT
setCacheAccessToken(value, expiresIn) ==
    [set |-> TRUE,
     json |-> << [AccessToken |-> value,
                  ExpiresIn |-> (now + expiresIn) - ((9 * expiresIn) \div 10)] >>]

\* faulty variant: the token is served at its expiry as well
getCacheAccessTokenAtExpiry ==
    IF env.json = <<>> THEN [token |-> NoToken, found |-> FALSE]
    ELSE IF now <= env.json[1].ExpiresIn
         THEN [token |-> env.json[1].AccessToken, found |-> TRUE]
         ELSE [token |-> NoToken, found |-> FALSE]

\* getCacheAccessToken once SS_AT is known to be set: (token, found)
getCacheAccessToken ==
    IF env.json = <<>> THEN [token |-> NoToken, found |-> FALSE]
    ELSE IF now < env.json[1].ExpiresIn
         THEN [token |-> env.json[1].AccessToken, found |-> TRUE]
         ELSE [token |-> NoToken, found |-> FALSE]

IdleCall ==
    [pc |-> "idle", resource |-> "", token |-> NoToken, cached |-> FALSE,
     err |-> "", trace |-> <<>>]

\* what a call did: a getAccessToken, or a request to an endpoint of a base URL
Event(kind, url, bearer) == [kind |-> kind, url |-> url, bearer |-> bearer]

\* the call's record after one more step
Step(c, kind, bearer, to) ==
    [call[c] EXCEPT !.trace = Append(@, Event(kind, cfg[c].ServerURL, bearer)), !.pc = to]

----------------------------------------------------------------------------
(* The client calls *)

\* the zero Secret's members other than Fields
NoHead == [FolderID |-> 0, SiteID |-> 0, SecretTemplateID |-> 0, Active |-> FALSE]

\* what a call returns: the error and the members of the *Secret (nil: zero)
Returned(err, fields, head) ==
    [err |-> err, Fields |-> fields, FolderID |-> head.FolderID, SiteID |-> head.SiteID,
     SecretTemplateID |-> head.SecretTemplateID, Active |-> head.Active]

NoResult == Returned("", <<>>, NoHead)

\* nothing noted of the server
NoHeld == [val |-> NoVals, record |-> <<>>]

\* no client call under way
CallIdle ==
    /\ pc = "idle"
    /\ resp = [err |-> "", of |-> 0]
    /\ method = ""
    /\ arg = NoSecret
    /\ secret = NoSecret
    /\ classifier = ""
    /\ fileFields = <<>>
    /\ writtenID = 0
    /\ rd = <<>>
    /\ idx = 0
    /\ reqs = <<>>
    /\ result = NoResult

SecretsIdle ==
    /\ srv = NoServerSecret
    /\ held = NoHeld
    /\ CallIdle

\* no uploadFile on its own, no accessResource call under way
OthersIdle ==
    /\ up = NoUpload
    /\ q = NoQuery
    /\ env = EnvUnset
    /\ now = 0
    /\ cfg = [c \in Callers |-> [ServerURL |-> "https://a", Token |-> "static"]]
    /\ call = [c \in Callers |-> IdleCall]
    /\ grants = <<>>

\* the calls of the secret protocol run with Credentials.Token set: each
\* request carries that token and SS_AT is not touched
Init ==
    /\ template \in Templates
    /\ SecretsIdle
    /\ OthersIdle

\* faulty variant: return (secret, err) with what has been read so far
FailPartial(err) ==
    /\ result' = Returned(err, rd, NoHead)
    /\ pc' = "done"

\* the errors handleResponse hands back for a request
ResponseErrors == {ErrTransport}

\* faulty variant: the error is wrapped before it is returned
ErrWrapped == "wrapped error"
FailWrapped(err) ==
    /\ result' = Returned(ErrWrapped, <<>>, NoHead)
    /\ pc' = "done"

\* faulty variant: the error is dropped, the call returns (nil, nil)
FailSwallowed(err) ==
    /\ result' = Returned("", <<>>, NoHead)
    /\ pc' = "done"

\* return (nil, err)
Fail(err) ==
    /\ result' = Returned(err, <<>>, NoHead)
    /\ pc' = "done"

\* faulty variant: the attachment test reads == 0
InlinesWithoutAttachment(element) ==
    element.IsFile /\ element.FileAttachmentID = 0 /\ element.Filename # ""

\* faulty variant: only IsFile is tested
InlinesAnyFile(element) == element.IsFile

\* the condition under which Secret() downloads a field's attachment
Inlines(element) ==
    element.IsFile /\ element.FileAttachmentID # 0 /\ element.Filename # ""

RECURSIVE NextInline(_, _)
NextInline(fields, from) ==
    IF from > Len(fields) THEN 0
    ELSE IF Inlines(fields[from]) THEN from
    ELSE NextInline(fields, from + 1)

\* Secret()'s range loop, from index `from` on: the next secondary GET, or return
ContinueRead(id, fields, from) ==
    LET j == NextInline(fields, from)
    IN  IF j = 0
        THEN /\ result' = Returned("", fields, ServerHead)
             /\ pc' = "done"
             /\ idx' = 0
             /\ reqs' = reqs
        ELSE /\ reqs' = Append(reqs, FieldGet(id, fields[j]))
             /\ pc' = "readfile"
             /\ idx' = j
             /\ result' = result

\* faulty variant: the test of the value is inverted
FileRequestInverted(secretId, element) ==
    IF element.ItemValue # "" THEN PatchRequest(secretId, element)
    ELSE UploadRequest(secretId, element)

\* updateFiles' loop body for one element: a PATCH or an upload
FileRequest(secretId, element) ==
    IF element.ItemValue = "" THEN PatchRequest(secretId, element)
    ELSE UploadRequest(secretId, element)

\* faulty variant: the value is assigned to the loop's copy of the element
InlinedCopy(fields, index, data) == fields

\* Secret()'s secret.Fields[index].ItemValue = string(data)
Inlined(fields, index, data) == [fields EXCEPT ![index].ItemValue = data]

\* faulty variant: the loop returns after its first element
ContinueFilesOnce(id, ff, i) ==
    IF i > Len(ff) \/ i > 1
    THEN /\ reqs' = Append(reqs, SecretGet(id))
         /\ pc' = "read"
         /\ idx' = 0
    ELSE /\ reqs' = Append(reqs, FileRequest(id, ff[i]))
         /\ pc' = "files"
         /\ idx' = i

\* faulty variant: the list is walked from its end
ContinueFilesBackwards(id, ff, i) ==
    IF i > Len(ff)
    THEN /\ reqs' = Append(reqs, SecretGet(id))
         /\ pc' = "read"
         /\ idx' = 0
    ELSE /\ reqs' = Append(reqs, FileRequest(id, ff[Len(ff) + 1 - i]))
         /\ pc' = "files"
         /\ idx' = i

\* faulty variant: the request for the last element is sent a second time
ContinueFilesRetry(id, ff, i) ==
    IF i > Len(ff) + 1 \/ ff = <<>>
    THEN /\ reqs' = Append(reqs, SecretGet(id))
         /\ pc' = "read"
         /\ idx' = 0
    ELSE /\ reqs' = Append(reqs, FileRequest(id, ff[IF i > Len(ff) THEN Len(ff) ELSE i]))
         /\ pc' = "files"
         /\ idx' = i

\* updateFiles' loop from index i on, and, past its end, the call of Secret(id)
ContinueFiles(id, ff, i) ==
    IF i > Len(ff)
    THEN /\ reqs' = Append(reqs, SecretGet(id))
         /\ pc' = "read"
         /\ idx' = 0
    ELSE /\ reqs' = Append(reqs, FileRequest(id, ff[i]))
         /\ pc' = "files"
         /\ idx' = i

\* no response consumed yet
NoResp == [err |-> "", of |-> 0]

\* how a request can end: "" is a response the call site takes
Outcomes == {""} \cup ResponseErrors

\* the call site took the response to the last request with error e
Responded(e) == resp' = [err |-> e, of |-> Len(reqs)]

\* CreateSecret(secret), called by the user with a secret of the given set
CreateSecretOf(inputs) ==
    /\ pc = "idle"
    /\ \E s \in inputs :
        /\ method' = "POST"
        /\ arg' = s
        /\ secret' = s
        /\ reqs' = <<TemplateGet>>
        /\ pc' = "template"
    /\ UNCHANGED <<template, srv, resp, classifier, fileFields, writtenID, rd, idx, result, held, uploadVars, tokenVars, lookupVars>>

CreateSecret == CreateSecretOf(CreateInputs)

\* faulty variant: the callee works on the caller's Secret (a pointer), not on a copy
CallerSeesShared(callers, callees) == callees

\* the caller's Secret after the callee assigned to the members of its
\* parameter: the parameter is a copy (passed by value), no assignment goes
\* through secret.Fields[i] or *secret.SshKeyArgs
CallerSees(callers, callees) == callers

\* UpdateSecret's secret.SshKeyArgs = nil
ClearArgs(s) == [s EXCEPT !.SshKeyArgs = NilArgs]

\* UpdateSecret(secret), called by the user with a secret of the given set
UpdateSecretOf(inputs) ==
    /\ pc = "idle"
    /\ \E s \in inputs :
        /\ method' = "PUT"
        /\ IF RejectsUpdate(s.SshKeyArgs)
           THEN /\ secret' = s
                /\ reqs' = <<>>
                /\ Fail(ErrSshOnUpdate)
           ELSE /\ secret' = ClearArgs(s)
                /\ reqs' = <<TemplateGet>>
                /\ pc' = "template"
                /\ result' = result
        /\ arg' = CallerSees(s, secret')
    /\ UNCHANGED <<template, srv, resp, classifier, fileFields, writtenID, rd, idx, held, uploadVars, tokenVars, lookupVars>>

UpdateSecret == UpdateSecretOf(UpdateInputs)

\* writeSecret from the response of the template GET to the POST/PUT
SecretTemplateResponse ==
    /\ pc = "template"
    /\ \E e \in Outcomes \cup {ErrParse} :
        /\ Responded(e)
        /\ IF e # ""
           THEN /\ Fail(e)
                /\ UNCHANGED <<secret, classifier, fileFields, reqs>>
           ELSE LET runs == RunsClassifier(secret.SshKeyArgs)
                    sep == separateFileFields(secret, template)
                IN  /\ classifier' = IF runs THEN "ran" ELSE "skipped"
                    /\ IF runs /\ sep.err # ""
                       THEN /\ Fail(sep.err)
                            /\ UNCHANGED <<secret, fileFields, reqs>>
                       ELSE /\ secret' = Prepared(secret, sep)
                            /\ fileFields' = Retained(secret, sep)
                            /\ reqs' = Append(reqs, WriteRequest(method, WritePath(method, secret), secret'))
                            /\ pc' = "write"
                            /\ result' = result
        /\ arg' = CallerSees(arg, secret')
    /\ UNCHANGED <<template, srv, method, writtenID, rd, idx, held, uploadVars, tokenVars, lookupVars>>

\* writeSecret from the response of the POST/PUT to the first request after it
WriteResponse ==
    /\ pc = "write"
    /\ LET req == reqs[Len(reqs)]
       IN  \E e \in Outcomes \cup {ErrParse} :
            /\ Responded(e)
            /\ CASE e \in ResponseErrors ->
                    /\ Fail(e)
                    /\ UNCHANGED <<srv, writtenID, idx, reqs>>
              [] e = ErrParse ->
                    /\ ServerAccepts(template, req)
                    /\ srv' = ServerWrite(template, req)
                    /\ Fail(ErrParse)
                    /\ UNCHANGED <<writtenID, idx, reqs>>
              [] e = "" ->
                    /\ ServerAccepts(template, req)
                    /\ srv' = ServerWrite(template, req)
                    /\ writtenID' = srv'.ID
                    /\ ContinueFiles(srv'.ID, fileFields, 1)
                    /\ result' = result
    /\ UNCHANGED <<template, method, arg, secret, classifier, fileFields, rd, held, uploadVars, tokenVars, lookupVars>>

\* updateFiles from the response for fileFields[idx] to the next request
FileResponse ==
    /\ pc = "files"
    /\ LET req == reqs[Len(reqs)]
       IN  \E e \in Outcomes :
            /\ Responded(e)
            /\ IF e = ""
               THEN /\ ServerAcceptsFile(template, req)
                    /\ srv' = ServerFile(template, req)
                    /\ ContinueFiles(writtenID, fileFields, idx + 1)
                    /\ result' = result
               ELSE /\ Fail(e)
                    /\ UNCHANGED <<srv, idx, reqs>>
    /\ UNCHANGED <<template, method, arg, secret, classifier, fileFields, writtenID, rd, held, uploadVars, tokenVars, lookupVars>>

\* Secret(id), called by the user
Secret ==
    /\ pc = "idle"
    /\ \E id \in SecretIDs :
        /\ method' = "GET"
        /\ writtenID' = id
        /\ reqs' = <<SecretGet(id)>>
        /\ pc' = "read"
    /\ UNCHANGED <<template, srv, resp, arg, secret, classifier, fileFields, rd, idx, result, held, uploadVars, tokenVars, lookupVars>>

\* Secret() from the response of the primary GET to the first secondary GET
SecretResponse ==
    /\ pc = "read"
    /\ \E e \in Outcomes \cup {ErrParse} :
        /\ Responded(e)
        /\ IF e = ""
           THEN /\ srv.ID # 0 /\ srv.ID = writtenID
                /\ rd' = ServerRecord(template)
                /\ ContinueRead(writtenID, rd', 1)
           ELSE /\ Fail(e)
                /\ UNCHANGED <<rd, idx, reqs>>
    /\ UNCHANGED <<template, srv, method, arg, secret, classifier, fileFields, writtenID, held, uploadVars, tokenVars, lookupVars>>

\* Secret() from the response of a secondary GET to the next one
FieldResponse ==
    /\ pc = "readfile"
    /\ \E e \in Outcomes :
        /\ Responded(e)
        /\ IF e = ""
           THEN /\ ServerAcceptsFieldGet(template, reqs[Len(reqs)])
                /\ rd' = Inlined(rd, idx, ServerFieldContent(template, reqs[Len(reqs)]))
                /\ ContinueRead(writtenID, rd', idx + 1)
           ELSE /\ Fail(e)
                /\ UNCHANGED <<rd, idx, reqs>>
    /\ UNCHANGED <<template, srv, method, arg, secret, classifier, fileFields, writtenID, held, uploadVars, tokenVars, lookupVars>>

\* DeleteSecret(id), called by the user; writtenID holds the id
DeleteSecret ==
    /\ pc = "idle"
    /\ \E id \in SecretIDs :
        /\ method' = "DELETE"
        /\ writtenID' = id
        /\ reqs' = <<DeleteRequest(id)>>
        /\ pc' = "delete"
    /\ UNCHANGED <<template, srv, resp, arg, secret, classifier, fileFields, rd, idx, result, held, uploadVars, tokenVars, lookupVars>>

\* DeleteSecret from the response of the DELETE to its return
DeleteResponse ==
    /\ pc = "delete"
    /\ \E e \in Outcomes :
        /\ Responded(e)
        /\ IF e = ""
           THEN /\ ServerAcceptsDelete(reqs[Len(reqs)])
                /\ srv' = ServerDelete
                /\ result' = NoResult
                /\ pc' = "done"
           ELSE /\ Fail(e)
                /\ srv' = srv
    /\ UNCHANGED <<template, method, arg, secret, classifier, fileFields, writtenID, rd, idx, reqs, held, uploadVars, tokenVars, lookupVars>>

\* the call has returned; the caller may make the next one
Return ==
    /\ pc = "done"
    /\ pc' = "idle"
    /\ resp' = NoResp
    /\ method' = ""
    /\ arg' = NoSecret
    /\ secret' = NoSecret
    /\ classifier' = ""
    /\ fileFields' = <<>>
    /\ writtenID' = 0
    /\ rd' = <<>>
    /\ idx' = 0
    /\ reqs' = <<>>
    /\ result' = NoResult
    /\ held' = NoHeld
    /\ UNCHANGED <<template, srv, uploadVars, tokenVars, lookupVars>>

Next ==
    \/ CreateSecret
    \/ UpdateSecret
    \/ Secret
    \/ DeleteSecret
    \/ SecretTemplateResponse
    \/ WriteResponse
    \/ FileResponse
    \/ SecretResponse
    \/ FieldResponse
    \/ DeleteResponse
    \/ Return

Spec == Init /\ [][Next]_vars

----------------------------------------------------------------------------
(* uploadFile on its own, for the filenames a file field can carry *)

InitUpload ==
    /\ template = <<>>
    /\ SecretsIdle
    /\ OthersIdle

\* uploadFile up to the PUT
uploadFile ==
    /\ up.pc = "off"
    /\ \E f \in UploadInputs :
          up' = [pc |-> "sent", fileField |-> f, req |-> <<UploadRequest(1, f)>>]
    /\ UNCHANGED <<secretVars, tokenVars, lookupVars>>

\* uploadFile's return: the error of handleResponse, or nil
uploadFileResponse ==
    /\ up.pc = "sent"
    /\ \E ok \in BOOLEAN : up' = [up EXCEPT !.pc = IF ok THEN "done" ELSE "failed"]
    /\ UNCHANGED <<secretVars, tokenVars, lookupVars>>

NextUpload == uploadFile \/ uploadFileResponse

SpecUpload == InitUpload /\ [][NextUpload]_vars

----------------------------------------------------------------------------
(* Secret(id) against a server that answers with any primary record *)

RecordSlug(i) == CASE i = 1 -> "a" [] i = 2 -> "b" [] OTHER -> "c"

\* the items of a primary record: any combination of IsFile, FileAttachmentID
\* and Filename, with or without a value
RecordItems(i) ==
    { [FieldID |-> i, Slug |-> RecordSlug(i), ItemValue |-> v,
       IsFile |-> f, FileAttachmentID |-> a, Filename |-> n] :
        v \in Values, f \in BOOLEAN, a \in {0, 7}, n \in {"", "File.txt"} }

RECURSIVE RecordsOfLen(_)
RecordsOfLen(n) ==
    IF n = 0 THEN {<<>>}
    ELSE {Append(r, e) : r \in RecordsOfLen(n - 1), e \in RecordItems(n)}

PrimaryRecords == UNION { RecordsOfLen(n) : n \in 1..MaxFields }

\* the bytes the server serves for an attachment
Content == "content"

InitRead ==
    /\ template = <<>>
    /\ SecretsIdle
    /\ OthersIdle

\* Secret(id), called by the user; the server holds the record
SecretOfRecord ==
    /\ pc = "idle"
    /\ \E record \in PrimaryRecords :
        held' = [NoHeld EXCEPT !.record = record]
    /\ method' = "GET"
    /\ writtenID' = 1
    /\ reqs' = <<SecretGet(1)>>
    /\ pc' = "read"
    /\ UNCHANGED <<template, srv, resp, arg, secret, classifier, fileFields, rd, idx, result, uploadVars, tokenVars, lookupVars>>

\* Secret() from the response of the primary GET to the first secondary GET
SecretResponseRecord ==
    /\ pc = "read" /\ method = "GET"
    /\ \E e \in Outcomes \cup {ErrParse} :
        /\ Responded(e)
        /\ IF e = ""
           THEN /\ rd' = held.record
                /\ ContinueRead(writtenID, rd', 1)
           ELSE /\ Fail(e)
                /\ UNCHANGED <<rd, idx, reqs>>
    /\ UNCHANGED <<template, srv, method, arg, secret, classifier, fileFields, writtenID, held, uploadVars, tokenVars, lookupVars>>

\* Secret() from the response of a secondary GET to the next one
FieldResponseContent ==
    /\ pc = "readfile"
    /\ \E e \in Outcomes :
        /\ Responded(e)
        /\ IF e = ""
           THEN /\ rd' = Inlined(rd, idx, Content)
                /\ ContinueRead(writtenID, rd', idx + 1)
           ELSE /\ Fail(e)
                /\ UNCHANGED <<rd, idx, reqs>>
    /\ UNCHANGED <<template, srv, method, arg, secret, classifier, fileFields, writtenID, held, uploadVars, tokenVars, lookupVars>>

NextRead ==
    \/ SecretOfRecord
    \/ SecretResponseRecord
    \/ FieldResponseContent
    \/ Return

SpecRead == InitRead /\ [][NextRead]_vars

----------------------------------------------------------------------------
(* Read, then update with what was read *)

\* what the server may hold for a template field: a value for a general field;
\* for a file field no attachment, or an attachment with a content (which may
\* be empty) and a filename (which the record may lack)
NoAttachment == [attached |-> FALSE, content |-> "", Filename |-> ""]

HeldFor(templateField) ==
    IF templateField.IsFile
    THEN {NoAttachment} \cup [attached : {TRUE}, content : Values, Filename : {"", "File.txt"}]
    ELSE [attached : {FALSE}, content : Values, Filename : {""}]

\* the contents and the primary record of a secret the server holds
HeldSecret(t, h) ==
    [val |-> [k \in 1..2 |-> h[k].content],
     record |-> [k \in 1..2 |->
                    [FieldID |-> t[k].SecretTemplateFieldID, Slug |-> t[k].FieldSlugName,
                     ItemValue |-> IF h[k].attached THEN Placeholder ELSE h[k].content,
                     IsFile |-> t[k].IsFile,
                     FileAttachmentID |-> IF h[k].attached THEN 7 ELSE 0,
                     Filename |-> h[k].Filename]]]

HeldSecrets(t) == { HeldSecret(t, <<h1, h2>>) : h1 \in HeldFor(t[1]), h2 \in HeldFor(t[2]) }

\* the server holds a secret; no call has been made
InitReadUpdate ==
    /\ template \in Templates
    /\ held \in HeldSecrets(template)
    /\ srv = [ID |-> NewID, val |-> held.val, FolderID |-> 1, SiteID |-> 1,
              SecretTemplateID |-> TemplateID, Active |-> TRUE]
    /\ CallIdle
    /\ OthersIdle

\* Secret(id) for the secret the server holds
SecretOfHeld ==
    /\ pc = "idle"
    /\ method' = "GET"
    /\ writtenID' = srv.ID
    /\ reqs' = <<SecretGet(srv.ID)>>
    /\ pc' = "read"
    /\ UNCHANGED <<template, srv, resp, arg, secret, classifier, fileFields, rd, idx, result, held, uploadVars, tokenVars, lookupVars>>

\* Secret() from the response of a secondary GET, which carries the content
\* of the attachment, to the next one
FieldResponseHeld ==
    /\ pc = "readfile" /\ method = "GET"
    /\ \E e \in Outcomes :
        /\ Responded(e)
        /\ IF e = ""
           THEN /\ rd' = Inlined(rd, idx, held.val[idx])
                /\ ContinueRead(writtenID, rd', idx + 1)
           ELSE /\ Fail(e)
                /\ UNCHANGED <<rd, idx, reqs>>
    /\ UNCHANGED <<template, srv, method, arg, secret, classifier, fileFields, writtenID, held, uploadVars, tokenVars, lookupVars>>

\* the *Secret that Secret(id) returned, as the Secret value handed to
\* UpdateSecret: the members the write path reads (the Filename of a record's
\* item is absent or the one uploadFile gives an item without a filename)
AsSecret(id, returned) ==
    [ID |-> id,
     Fields |-> [i \in 1..Len(returned.Fields) |->
                    [FieldID |-> returned.Fields[i].FieldID, Slug |-> returned.Fields[i].Slug,
                     ItemValue |-> returned.Fields[i].ItemValue]],
     FieldsNil |-> FALSE, SshKeyArgs |-> NilArgs,
     FolderID |-> returned.FolderID, SiteID |-> returned.SiteID,
     SecretTemplateID |-> returned.SecretTemplateID]

\* Secret(id) has returned a secret; the caller passes it, unmodified, to UpdateSecret
UpdateSecretWithRead ==
    /\ pc = "done" /\ method = "GET" /\ result.err = "" /\ result.Fields # <<>>
    /\ LET s == AsSecret(writtenID, result)
       IN  /\ method' = "PUT"
           /\ IF RejectsUpdate(s.SshKeyArgs)
              THEN /\ secret' = s
                   /\ reqs' = <<>>
                   /\ Fail(ErrSshOnUpdate)
              ELSE /\ secret' = ClearArgs(s)
                   /\ reqs' = <<TemplateGet>>
                   /\ pc' = "template"
                   /\ result' = NoResult
           /\ arg' = CallerSees(s, secret')
    /\ resp' = NoResp
    /\ classifier' = ""
    /\ fileFields' = <<>>
    /\ writtenID' = 0
    /\ rd' = <<>>
    /\ idx' = 0
    /\ UNCHANGED <<template, srv, held, uploadVars, tokenVars, lookupVars>>

\* the re-fetch that ends the update reads the secret as the update left it
RefetchResponse == method = "PUT" /\ SecretResponse

RefetchFieldResponse == method = "PUT" /\ FieldResponse

NextReadUpdate ==
    \/ SecretOfHeld
    \/ SecretResponseRecord
    \/ FieldResponseHeld
    \/ UpdateSecretWithRead
    \/ SecretTemplateResponse
    \/ WriteResponse
    \/ FileResponse
    \/ RefetchResponse
    \/ RefetchFieldResponse

SpecReadUpdate == InitReadUpdate /\ [][NextReadUpdate]_vars

----------------------------------------------------------------------------
(* handleResponse *)

errorBodyLength == 255

\* status codes of a response, around the bounds of the 2xx range
Statuses == {100, 199, 200, 204, 299, 300, 404, 500}

\* response bodies by length, around errorBodyLength; the bytes alternate
BodyLengths == {0, 1, errorBodyLength - 1, errorBodyLength, errorBodyLength + 1}
ResponseBodies == { [i \in 1..n |-> IF i % 2 = 0 THEN "x" ELSE "y"] : n \in BodyLengths }

ErrRead == "error reading the response body"
ErrStatus == "status"
Ellipsis == <<".", ".", ".">>

\* the error fmt.Errorf("%s: %s", res.Status, string(data)) by its operands
NoData == [nil |-> TRUE, data |-> <<>>]
NoStatusError == [status |-> 0, text |-> <<>>]

\* faulty variant: 300 is taken for a success
handleResponseThrough300(status, body, err, readErr) ==
    IF err # "" THEN [data |-> NoData, err |-> err, of |-> NoStatusError]
    ELSE IF readErr # "" THEN [data |-> NoData, err |-> readErr, of |-> NoStatusError]
    ELSE IF status > 199 /\ status <= 300
         THEN [data |-> [nil |-> FALSE, data |-> body], err |-> "", of |-> NoStatusError]
    ELSE [data |-> NoData, err |-> ErrStatus,
          of |-> [status |-> status,
                  text |-> IF Len(body) >= errorBodyLength
                           THEN SubSeq(body, 1, errorBodyLength) \o Ellipsis
                           ELSE body]]

\* handleResponse(res, err) returns (data, err); res is returned as it came
handleResponse(status, body, err, readErr) ==
    IF err # "" THEN [data |-> NoData, err |-> err, of |-> NoStatusError]
    ELSE IF readErr # "" THEN [data |-> NoData, err |-> readErr, of |-> NoStatusError]
    ELSE IF status > 199 /\ status < 300
         THEN [data |-> [nil |-> FALSE, data |-> body], err |-> "", of |-> NoStatusError]
    ELSE [data |-> NoData, err |-> ErrStatus,
          of |-> [status |-> status,
                  text |-> IF Len(body) >= errorBodyLength
                           THEN SubSeq(body, 1, errorBodyLength) \o Ellipsis
                           ELSE body]]

----------------------------------------------------------------------------
(* One public operation on a server that holds no secret or one secret, *)
(* every transport call returning                                       *)

\* what the server may hold when the operation is called: nothing, or a
\* secret with a value in each field
LiveServers ==
    { NoServerSecret,
      [ID |-> NewID, val |-> [i \in 1..2 |-> "x"], FolderID |-> PlaceCreated.FolderID,
       SiteID |-> PlaceCreated.SiteID, SecretTemplateID |-> TemplateID, Active |-> TRUE] }

\* the secrets the operation is given: fields addressed by slug
LiveFields == [FieldID : {0}, Slug : {"a", "b", "z"}, ItemValue : Values]
LiveSecrets(id) ==
    { [ID |-> id, Fields |-> f, FieldsNil |-> FALSE, SshKeyArgs |-> a] :
        f \in SeqsUpTo(LiveFields, MaxFields), a \in SshKeyArgsValues }
LiveCreateInputs == { Placed(s, PlaceCreated) : s \in LiveSecrets(0) }
LiveUpdateInputs == { Placed(s, PlaceUpdated) : s \in LiveSecrets(NewID) }

CreateSecretLive == CreateSecretOf(LiveCreateInputs)
UpdateSecretLive == UpdateSecretOf(LiveUpdateInputs)

InitLive ==
    /\ template \in Templates
    /\ srv \in LiveServers
    /\ held = NoHeld
    /\ CallIdle
    /\ OthersIdle

NextLive ==
    \/ CreateSecretLive
    \/ UpdateSecretLive
    \/ Secret
    \/ DeleteSecret
    \/ SecretTemplateResponse
    \/ WriteResponse
    \/ FileResponse
    \/ SecretResponse
    \/ FieldResponse
    \/ DeleteResponse

\* each transport call returns: a response, or an error, reaches the call
TransportReturns ==
    /\ WF_vars(SecretTemplateResponse)
    /\ WF_vars(WriteResponse)
    /\ WF_vars(FileResponse)
    /\ WF_vars(SecretResponse)
    /\ WF_vars(FieldResponse)
    /\ WF_vars(DeleteResponse)

SpecLive == InitLive /\ [][NextLive]_vars /\ TransportReturns

----------------------------------------------------------------------------
(* New and the lookups, each called on its own *)

InitCalls ==
    /\ template = <<>>
    /\ SecretsIdle
    /\ OthersIdle

\* the call op with the given inputs has returned out
Query(op, config, t, fields, id, name, out) ==
    [op |-> op, config |-> config, t |-> t, fields |-> fields, id |-> id, name |-> name,
     out |-> out]

CallNew ==
    /\ q.op = ""
    /\ \E config \in NewConfigs :
          q' = Query("New", config, <<>>, <<>>, 0, "",
                     [NoOut EXCEPT !.err = New(config).err, !.server = New(config).server])
    /\ UNCHANGED <<secretVars, uploadVars, tokenVars>>

CallFieldIdToSlug ==
    /\ q.op = ""
    /\ \E t \in LookupTemplates, id \in LookupIds :
          q' = Query("FieldIdToSlug", NoConfig, t, <<>>, id, "",
                     [NoOut EXCEPT !.value = FieldIdToSlug(t, id).slug,
                                   !.found = FieldIdToSlug(t, id).found])
    /\ UNCHANGED <<secretVars, uploadVars, tokenVars>>

CallFieldSlugToId ==
    /\ q.op = ""
    /\ \E t \in LookupTemplates, slug \in LookupNames :
          q' = Query("FieldSlugToId", NoConfig, t, <<>>, 0, slug,
                     [NoOut EXCEPT !.id = FieldSlugToId(t, slug).id,
                                   !.found = FieldSlugToId(t, slug).found])
    /\ UNCHANGED <<secretVars, uploadVars, tokenVars>>

CallField ==
    /\ q.op = ""
    /\ \E fields \in AccessSecrets, name \in LookupNames :
          q' = Query("Field", NoConfig, <<>>, fields, 0, name,
                     [NoOut EXCEPT !.value = Field(fields, name).value,
                                   !.found = Field(fields, name).found])
    /\ UNCHANGED <<secretVars, uploadVars, tokenVars>>

CallFieldById ==
    /\ q.op = ""
    /\ \E fields \in AccessSecrets, id \in LookupIds :
          q' = Query("FieldById", NoConfig, <<>>, fields, id, "",
                     [NoOut EXCEPT !.value = FieldById(fields, id).value,
                                   !.found = FieldById(fields, id).found])
    /\ UNCHANGED <<secretVars, uploadVars, tokenVars>>

\* handleResponse is given the result of the HTTP call: a response and an error
CallHandleResponse ==
    /\ q.op = ""
    /\ \E status \in Statuses, body \in ResponseBodies, err \in {"", ErrTransport},
          readErr \in {"", ErrRead} :
          q' = [op |-> "handleResponse", config |-> NoConfig, t |-> <<>>, fields |-> <<>>,
                id |-> 0, name |-> "",
                res |-> [StatusCode |-> status, Body |-> body, readErr |-> readErr],
                err |-> err,
                out |-> handleResponse(status, body, err, readErr)]
    /\ UNCHANGED <<secretVars, uploadVars, tokenVars>>

CallGetField ==
    /\ q.op = ""
    /\ \E t \in DuplicateTemplates, slug \in LookupNames :
          q' = Query("GetField", NoConfig, t, <<>>, 0, slug,
                     [NoOut EXCEPT !.id = GetField(t, slug).index,
                                   !.found = GetField(t, slug).found])
    /\ UNCHANGED <<secretVars, uploadVars, tokenVars>>

CallSeparateFileFields ==
    /\ q.op = ""
    /\ \E t \in DuplicateTemplates, fields \in ClassifiedSecrets :
          q' = Query("separateFileFields", NoConfig, t, fields, 0, "",
                     separateFileFields([Fields |-> fields], t))
    /\ UNCHANGED <<secretVars, uploadVars, tokenVars>>

NextCalls ==
    \/ CallNew
    \/ CallHandleResponse
    \/ CallGetField
    \/ CallSeparateFileFields
    \/ CallFieldIdToSlug
    \/ CallFieldSlugToId
    \/ CallField
    \/ CallFieldById

SpecCalls == InitCalls /\ [][NextCalls]_vars

----------------------------------------------------------------------------
(* GeneratePassword, called on its own with any template and any slug *)

\* bytes of a response body: the double quote and another byte
MaxBodyLen == 3
Quote == "quote"
Bodies == SeqsUpTo({Quote, "p"}, MaxBodyLen)

\* the slice expression s[lo:hi] on a string: it panics unless 0 <= lo <= hi <= len(s)
SliceString(str, lo, hi) ==
    IF 0 <= lo /\ lo <= hi /\ hi <= Len(str)
    THEN [panic |-> FALSE, value |-> SubSeq(str, lo + 1, hi)]
    ELSE [panic |-> TRUE, value |-> <<>>]

\* fmt.Sprintf("generate-password/%d", fieldId) under the templates resource
GeneratePasswordRequest(fieldId) ==
    Request("POST", "secret-templates", <<"generate-password", Itoa(fieldId)>>, "none", <<>>)

InitPassword ==
    /\ template = <<>>
    /\ SecretsIdle
    /\ OthersIdle

\* GeneratePassword up to its request: the slug is looked up, a miss is
\* logged, and the request goes out with whatever ID the lookup gave
GeneratePassword ==
    /\ pc = "idle"
    /\ q.op = ""
    /\ \E t \in LookupTemplates, slug \in LookupNames :
          LET fieldId == FieldSlugToId(t, slug).id
          IN  /\ q' = Query("GeneratePassword", NoConfig, t, <<>>, fieldId, slug, NoOut)
              /\ reqs' = Append(reqs, GeneratePasswordRequest(fieldId))
    /\ pc' = "password"
    /\ UNCHANGED <<template, srv, resp, method, arg, secret, classifier, fileFields,
                   writtenID, rd, idx, result, held, uploadVars, tokenVars>>

\* accessResource returns an error, or the body of a 2xx response, of which
\* GeneratePassword returns the slice [1 : len-1]
GeneratePasswordResponse ==
    /\ pc = "password"
    /\ \/ /\ \E e \in ResponseErrors : q' = [q EXCEPT !.out.err = e]
          /\ pc' = "returned"
       \/ \E data \in Bodies :
             LET password == SliceString(data, 1, Len(data) - 1)
             IN  /\ q' = [q EXCEPT !.fields = data, !.out.value = password.value]
                 /\ pc' = IF password.panic THEN "panicked" ELSE "returned"
    /\ UNCHANGED <<template, srv, resp, method, arg, secret, classifier, fileFields,
                   writtenID, rd, idx, reqs, result, held, uploadVars, tokenVars>>

NextPassword ==
    \/ GeneratePassword
    \/ GeneratePasswordResponse

SpecPassword == InitPassword /\ [][NextPassword]_vars

----------------------------------------------------------------------------
(* accessResource and getAccessToken, called by the Servers of one process; *)
(* the calls of different callers interleave at the accesses to SS_AT and   *)
(* at the requests                                                          *)

InitToken ==
    /\ template = <<>>
    /\ SecretsIdle
    /\ up = NoUpload
    /\ q = NoQuery
    /\ env = EnvUnset
    /\ now = 0
    /\ cfg \in [Callers -> Configs]
    /\ call = [c \in Callers |-> IdleCall]
    /\ grants = <<>>

\* accessResource up to its call of getAccessToken
accessResource(c) ==
    /\ call[c].pc = "idle"
    /\ \E resource \in Resources :
          call' = [call EXCEPT ![c] =
                     IF AllowedResource(resource)
                     THEN [IdleCall EXCEPT !.pc = "token", !.resource = resource]
                     ELSE [IdleCall EXCEPT !.pc = "done", !.resource = resource,
                                           !.err = ErrUnknownResource]]
    /\ UNCHANGED <<env, now, cfg, grants, secretVars, uploadVars, lookupVars>>

\* getAccessToken up to the health check: the static token, else the cache
getAccessToken(c) ==
    /\ call[c].pc = "token"
    /\ call' = [call EXCEPT ![c] =
                  IF cfg[c].Token # ""
                  THEN [Step(c, "getAccessToken", NoToken, "send") EXCEPT !.token = StaticToken]
                  ELSE IF ~env.set
                  THEN Step(c, "getAccessToken", NoToken, "setenv")
                  ELSE IF getCacheAccessToken.found
                  THEN [Step(c, "getAccessToken", NoToken, "send") EXCEPT
                            !.token = getCacheAccessToken.token, !.cached = TRUE]
                  ELSE Step(c, "getAccessToken", NoToken, "health")]
    /\ UNCHANGED <<env, now, cfg, grants, secretVars, uploadVars, lookupVars>>

\* getCacheAccessToken's os.Setenv("SS_AT", "") after a LookupEnv that found nothing
getCacheAccessTokenSetenv(c) ==
    /\ call[c].pc = "setenv"
    /\ env' = EnvEmpty
    /\ call' = [call EXCEPT ![c].pc = "health"]
    /\ UNCHANGED <<now, cfg, grants, secretVars, uploadVars, lookupVars>>

\* checkPlatformDetails: a Secret Server (password grant follows), a platform
\* (its token is returned), or neither
checkPlatformDetails(c) ==
    /\ call[c].pc = "health"
    /\ \E outcome \in {"secretserver", "platform", "invalid"} :
          call' = [call EXCEPT ![c] =
                     CASE outcome = "secretserver" -> Step(c, "health", NoToken, "grant")
                       [] outcome = "platform" ->
                            [Step(c, "health", NoToken, "send") EXCEPT
                                !.token = PlatformToken(cfg[c].ServerURL)]
                       [] outcome = "invalid" ->
                            [Step(c, "health", NoToken, "done") EXCEPT !.err = ErrInvalidURL]]
    /\ UNCHANGED <<env, now, cfg, grants, secretVars, uploadVars, lookupVars>>

\* getAccessToken's password grant: the POST to the token endpoint, and on
\* success setCacheAccessToken
passwordGrant(c) ==
    /\ call[c].pc = "grant"
    /\ \/ /\ Len(grants) < MaxGrants
          /\ LET token == [by |-> cfg[c].ServerURL, n |-> Len(grants) + 1]
             IN  /\ \E expiresIn \in ExpiresIns :
                       /\ grants' = Append(grants, Grant(token, expiresIn))
                       /\ env' = setCacheAccessToken(token, expiresIn)
                 /\ call' = [call EXCEPT ![c] =
                               [Step(c, "token", NoToken, "send") EXCEPT !.token = token]]
       \/ /\ call' = [call EXCEPT ![c] =
                        [Step(c, "token", NoToken, "done") EXCEPT !.err = ErrGrant]]
          /\ UNCHANGED <<env, grants>>
    /\ UNCHANGED <<now, cfg, secretVars, uploadVars, lookupVars>>

\* accessResource's request, with the token as its bearer, and its return
sendRequest(c) ==
    /\ call[c].pc = "send"
    /\ \E ok \in BOOLEAN :
          call' = [call EXCEPT ![c] =
                     [Step(c, "request", call[c].token, "done") EXCEPT
                         !.err = IF ok THEN "" ELSE ErrTransport]]
    /\ UNCHANGED <<env, now, cfg, grants, secretVars, uploadVars, lookupVars>>

\* the call has returned; the caller may make the next one
returned(c) ==
    /\ call[c].pc = "done"
    /\ call' = [call EXCEPT ![c] = IdleCall]
    /\ UNCHANGED <<env, now, cfg, grants, secretVars, uploadVars, lookupVars>>

\* time passes
Tick ==
    /\ now < MaxTime
    /\ now' = now + 1
    /\ UNCHANGED <<env, cfg, call, grants, secretVars, uploadVars, lookupVars>>

NextToken ==
    \/ \E c \in Callers : accessResource(c)
    \/ \E c \in Callers : getAccessToken(c)
    \/ \E c \in Callers : getCacheAccessTokenSetenv(c)
    \/ \E c \in Callers : checkPlatformDetails(c)
    \/ \E c \in Callers : passwordGrant(c)
    \/ \E c \in Callers : sendRequest(c)
    \/ \E c \in Callers : returned(c)
    \/ Tick

SpecToken == InitToken /\ [][NextToken]_vars

----------------------------------------------------------------------------
(* What the claims speak of, stated without the SDK's lookups *)

\* the field carries a slug of the template, or no slug and a field ID of it
Defined(t, f) ==
    IF f.Slug # "" THEN \E i \in 1..Len(t) : t[i].FieldSlugName = f.Slug
    ELSE \E i \in 1..Len(t) : t[i].SecretTemplateFieldID = f.FieldID

\* the template field definition a defined field resolves to
DefOf(t, f) ==
    CHOOSE i \in 1..Len(t) :
        IF f.Slug # "" THEN t[i].FieldSlugName = f.Slug
        ELSE t[i].SecretTemplateFieldID = f.FieldID

AllDefined(t, fields) == \A i \in 1..Len(fields) : Defined(t, fields[i])

IsFileField(f) == Defined(template, f) /\ template[DefOf(template, f)].IsFile
IsGeneralField(f) == Defined(template, f) /\ ~template[DefOf(template, f)].IsFile

\* the POST/PUT requests of writeSecret among the requests issued
WriteReqs == { i \in 1..Len(reqs) : reqs[i].kind = "json" /\ reqs[i].method \in {"POST", "PUT"} }

\* the caller asked for key generation
KeyGeneration(args) == args.present /\ args.GenerateSshKeys
\* the caller asked for key or passphrase generation
AnyGeneration(args) == args.present /\ (args.GenerateSshKeys \/ args.GeneratePassphrase)

----------------------------------------------------------------------------
(* Claims *)

\* C1: when every field of the secret is defined on the template,
\* separateFileFields succeeds and its two lists are the stable partition of
\* the secret's fields by the is-file flag of the definition each resolves to:
\* each list is the subsequence of the input with (without) the flag, so no
\* field is lost, duplicated or reordered.
C1_StablePartition ==
    (classifier = "ran" /\ AllDefined(template, arg.Fields)) =>
        /\ result.err \notin {ErrFieldId, ErrFieldName}
        /\ fileFields = SelectSeq(arg.Fields, IsFileField)
        /\ secret.Fields = SelectSeq(arg.Fields, IsGeneralField)

C1_Witness ==
    /\ classifier = "ran"
    /\ AllDefined(template, arg.Fields)
    /\ Len(arg.Fields) = 2
    /\ IsGeneralField(arg.Fields[1]) /\ IsFileField(arg.Fields[2])
    /\ Len(fileFields) = 1 /\ Len(secret.Fields) = 1

\* C2: outside key-generation mode the JSON body of every POST/PUT holds no
\* field whose template definition is a file field.
C2_NoFileFieldInBody ==
    ~KeyGeneration(arg.SshKeyArgs) =>
        \A i \in WriteReqs :
            \A k \in 1..Len(reqs[i].body[1].Items) : ~IsFileField(reqs[i].body[1].Items[k])

C2_Witness ==
    /\ ~KeyGeneration(arg.SshKeyArgs)
    /\ WriteReqs # {}
    /\ \E k \in 1..Len(arg.Fields) : IsFileField(arg.Fields[k]) /\ arg.Fields[k].ItemValue # ""

\* the value the returned secret holds for template field k (as FieldById reads it)
ReturnedValue(k) ==
    LET j == CHOOSE j \in 1..Len(result.Fields) :
                result.Fields[j].FieldID = template[k].SecretTemplateFieldID
    IN  result.Fields[j].ItemValue

CreateSucceeded == method = "POST" /\ pc = "done" /\ result.err = ""

\* no two fields of the list resolve to the same template field
DistinctDefs(t, fields) ==
    \A i, j \in 1..Len(fields) :
        (i # j /\ Defined(t, fields[i]) /\ Defined(t, fields[j]))
            => DefOf(t, fields[i]) # DefOf(t, fields[j])

\* the multipart uploads among the requests issued
Uploads == { i \in 1..Len(reqs) : reqs[i].kind = "multipart" }

\* C3 as claimed, for an S that gives each template field one value at most:
\* the secret read back after a successful CreateSecret(S) holds, for every
\* general field of S, the value S gave it, and for every file field that was
\* uploaded, the uploaded content.
C3_RoundTrip ==
    (CreateSucceeded /\ DistinctDefs(template, arg.Fields)) =>
        /\ \A k \in 1..Len(arg.Fields) :
                IsGeneralField(arg.Fields[k]) =>
                    ReturnedValue(DefOf(template, arg.Fields[k])) = arg.Fields[k].ItemValue
        /\ \A i \in Uploads :
                \A k \in 1..Len(template) :
                    (template[k].IsFile /\ reqs[i].path = <<Itoa(writtenID), "fields", template[k].FieldSlugName>>)
                        => ReturnedValue(k) = reqs[i].body[1].content

\* C3 as amended: the round trip holds for a CreateSecret(S) that asks for no
\* SSH generation (S giving each template field one value at most): every
\* field of S is read back with the value S gave it, a file field with the
\* content S gave for upload.
C3_RoundTripNoGenerationDistinctFields ==
    (/\ CreateSucceeded
     /\ ~AnyGeneration(arg.SshKeyArgs)
     /\ DistinctDefs(template, arg.Fields)) =>
        /\ AllDefined(template, arg.Fields)
        /\ \A k \in 1..Len(arg.Fields) :
                ReturnedValue(DefOf(template, arg.Fields[k])) = arg.Fields[k].ItemValue

C3_Witness ==
    /\ CreateSucceeded
    /\ ~AnyGeneration(arg.SshKeyArgs)
    /\ Len(arg.Fields) = 2
    /\ IsFileField(arg.Fields[1]) /\ arg.Fields[1].ItemValue = "x"
    /\ IsGeneralField(arg.Fields[2]) /\ arg.Fields[2].ItemValue = "x"
    /\ Len(reqs) = 5

\* C4: an UpdateSecret whose directive has GenerateSshKeys or
\* GeneratePassphrase set returns an error and has issued no request at all.
C4_UpdateRejectsGeneration ==
    (method = "PUT" /\ AnyGeneration(arg.SshKeyArgs)) =>
        /\ pc = "done"
        /\ result.err = ErrSshOnUpdate
        /\ result.Fields = <<>>
        /\ reqs = <<>>

C4_Witness ==
    /\ method = "PUT"
    /\ arg.SshKeyArgs.present
    /\ arg.SshKeyArgs.GeneratePassphrase /\ ~arg.SshKeyArgs.GenerateSshKeys
    /\ srv.ID = arg.ID
    /\ pc = "done"

\* C5 as claimed: the classifier runs iff the directive writeSecret is given
\* is absent or has both flags false.
C5_ClassifierIffNoGeneration ==
    classifier # "" => (classifier = "ran" <=> ~AnyGeneration(secret.SshKeyArgs))

\* C5 as amended: the classifier runs iff the directive is absent or has
\* GenerateSshKeys false (GeneratePassphrase alone does not skip it); when it
\* is skipped the request carries the caller's fields as they are and no file
\* field is retained.
C5_ClassifierIffNoKeyGeneration ==
    classifier # "" =>
        /\ classifier = "ran" <=> ~KeyGeneration(secret.SshKeyArgs)
        /\ classifier = "skipped" =>
            /\ fileFields = <<>>
            /\ \A i \in WriteReqs : reqs[i].body[1].Items = arg.Fields

C5_Witness ==
    /\ classifier = "skipped"
    /\ WriteReqs # {}
    /\ \E k \in 1..Len(arg.Fields) : IsFileField(arg.Fields[k])
    /\ \E k \in 1..Len(arg.Fields) : IsGeneralField(arg.Fields[k])

\* C6 as claimed: every POST/PUT carries only fields the template defines.
C6_BodyFieldsDefined ==
    \A i \in WriteReqs : AllDefined(template, reqs[i].body[1].Items)

\* C6 as amended: every POST/PUT of a write that does not ask for key
\* generation carries only fields the template defines; with GenerateSshKeys
\* set the fields are sent unchecked.
C6_BodyFieldsDefinedUnlessKeyGeneration ==
    \A i \in WriteReqs :
        ~(reqs[i].body[1].hasSshKeyArgs /\ reqs[i].body[1].SshKeyArgs.GenerateSshKeys)
            => AllDefined(template, reqs[i].body[1].Items)

C6_Witness ==
    /\ WriteReqs # {}
    /\ arg.SshKeyArgs.present /\ arg.SshKeyArgs.GeneratePassphrase
    /\ ~arg.SshKeyArgs.GenerateSshKeys
    /\ \E i \in WriteReqs : Len(reqs[i].body[1].Items) = 2

\* C7: when a field of the secret is not defined on the template and the
\* classifier runs, the call has returned an error and the template GET is the
\* only request it issued.
C7_ClassificationFailureSendsNothing ==
    (classifier = "ran" /\ ~AllDefined(template, arg.Fields)) =>
        /\ pc = "done"
        /\ result.err # ""
        /\ result.Fields = <<>>
        /\ reqs = <<TemplateGet>>

C7_Witness ==
    /\ classifier = "ran"
    /\ Len(arg.Fields) = 2
    /\ IsFileField(arg.Fields[1]) /\ arg.Fields[1].ItemValue # ""
    /\ ~Defined(template, arg.Fields[2])
    /\ pc = "done"

\* the first field of the list the template does not define
FirstUndefined(t, fields) ==
    CHOOSE k \in 1..Len(fields) :
        ~Defined(t, fields[k]) /\ \A j \in 1..(k - 1) : Defined(t, fields[j])

\* C8: classification fails at the first field the template does not define,
\* with the field-id error when that field has no slug and with the field-name
\* error when it has one, and hands no field list on.
C8_ClassificationErrors ==
    (classifier = "ran" /\ ~AllDefined(template, arg.Fields)) =>
        LET f == arg.Fields[FirstUndefined(template, arg.Fields)]
        IN  /\ result.err = IF f.Slug = "" THEN ErrFieldId ELSE ErrFieldName
            /\ fileFields = <<>>
            /\ secret.Fields = arg.Fields

C8_Witness ==
    /\ classifier = "ran"
    /\ Len(arg.Fields) = 2
    /\ arg.Fields[1].Slug = "" /\ ~Defined(template, arg.Fields[1])
    /\ arg.Fields[2].Slug = "z"
    /\ result.err = ErrFieldId

\* C9: the body of a CreateSecret's POST carries an SSH-generation directive
\* iff the caller's directive is present with a flag set, and then it is the
\* caller's directive.
C9_CreateDirectiveIffRequested ==
    \A i \in WriteReqs :
        reqs[i].method = "POST" =>
            /\ reqs[i].body[1].hasSshKeyArgs <=> AnyGeneration(arg.SshKeyArgs)
            /\ reqs[i].body[1].hasSshKeyArgs => reqs[i].body[1].SshKeyArgs = arg.SshKeyArgs

C9_Witness ==
    /\ \E i \in WriteReqs : reqs[i].method = "POST" /\ ~reqs[i].body[1].hasSshKeyArgs
    /\ arg.SshKeyArgs.present
    /\ ~arg.SshKeyArgs.GenerateSshKeys /\ ~arg.SshKeyArgs.GeneratePassphrase

\* C10: no PUT body of an UpdateSecret carries an SSH-generation directive.
C10_UpdateBodyHasNoDirective ==
    \A i \in WriteReqs :
        reqs[i].method = "PUT" =>
            /\ ~reqs[i].body[1].hasSshKeyArgs
            /\ reqs[i].body[1].SshKeyArgs = NilArgs

C10_Witness ==
    /\ \E i \in WriteReqs : reqs[i].method = "PUT"
    /\ arg.SshKeyArgs.present


\* the reconciliation requests of updateFiles among the requests issued; the
\* one for fileFields[k] is reqs[k + 2], after the template GET and the POST/PUT
ReconReqs == { j \in 1..Len(reqs) : reqs[j].method = "PATCH" \/ reqs[j].kind = "multipart" }

\* CreateSecret or UpdateSecret has returned a secret
WriteSucceeded == pc = "done" /\ method \in {"POST", "PUT"} /\ result.err = ""

\* C11: every POST/PUT body carries Items as a list, never null; when the
\* caller gave no fields, or every given field was classified as a file field,
\* it is the empty list.
C11_ItemsIsAList ==
    \A i \in WriteReqs :
        /\ ~reqs[i].body[1].ItemsNull
        /\ (arg.Fields = <<>> \/ (classifier = "ran" /\ Len(fileFields) = Len(arg.Fields)))
              => reqs[i].body[1].Items = <<>>

C11_Witness ==
    /\ WriteReqs # {}
    /\ classifier = "ran"
    /\ Len(arg.Fields) = 2 /\ Len(fileFields) = 2

\* the request is the one updateFiles issues for the element: a PATCH of
\* {secretId}/general marking the field dirty with a null value when the
\* element's value is empty, else an upload of the value under {secretId}/fields
ReconFor(element, req) ==
    IF element.ItemValue = ""
    THEN /\ req.method = "PATCH" /\ req.kind = "json"
         /\ req.path = <<Itoa(writtenID), "general">>
         /\ req.body[1].Slug = element.Slug
         /\ req.body[1].Dirty /\ req.body[1].ValueNull
    ELSE /\ req.method = "PUT" /\ req.kind = "multipart"
         /\ req.body[1].content = element.ItemValue
         /\ SubSeq(req.path, 1, 2) = <<Itoa(writtenID), "fields">>
         /\ element.Slug # "" => req.path = <<Itoa(writtenID), "fields", element.Slug>>

\* C12: every reconciliation request is the one for its retained file field,
\* a PATCH (never an upload) for an empty value and an upload (never a PATCH)
\* for a non-empty one, and a write that succeeds has issued exactly one
\* request for each retained file field.
C12_OneRequestPerFileField ==
    /\ \A j \in ReconReqs :
          /\ j - 2 \in 1..Len(fileFields)
          /\ ReconFor(fileFields[j - 2], reqs[j])
    /\ WriteSucceeded => ReconReqs = { k + 2 : k \in 1..Len(fileFields) }

C12_Witness ==
    /\ WriteSucceeded
    /\ Len(fileFields) = 2
    /\ fileFields[1].ItemValue # "" /\ fileFields[2].ItemValue = ""

\* the slug the template gives the definition a field resolves to
TemplateSlug(f) == template[DefOf(template, f)].FieldSlugName

\* C13: every reconciliation request for a retained file field is addressed
\* by the slug the template defines for the field (in the path of an upload,
\* in the Slug of a PATCH entry), also when the caller gave only the FieldID.
C13_AddressedByTemplateSlug ==
    \A j \in ReconReqs :
        j - 2 \in 1..Len(fileFields) =>
            LET slug == TemplateSlug(fileFields[j - 2])
            IN  IF reqs[j].method = "PATCH"
                THEN reqs[j].body[1].Slug = slug
                ELSE reqs[j].path = <<Itoa(writtenID), "fields", slug>>


\* the filename uploadFile was given, and the one it sent
GivenFilename == up.fileField.Filename
SentFilename == up.req[1].body[1].filename

\* the name ends in a dot followed by one or more word characters
EndsInDotWord(f) ==
    \E d \in 1..(Len(f) - 1) :
        f[d] = "." /\ \A p \in (d + 1)..Len(f) : f[p] \in WordChars

\* the same, the dot following a character that is not a dot
EndsInStemDotWord(f) ==
    \E d \in 2..(Len(f) - 1) :
        /\ f[d] = "." /\ f[d - 1] # "."
        /\ \A p \in (d + 1)..Len(f) : f[p] \in WordChars

\* C14 as claimed: the filename sent is "File.txt" for an empty Filename,
\* Filename + ".txt" for a non-empty one that does not end in a dot followed
\* by word characters, and Filename unchanged when it does; so it is
\* non-empty and has an extension.
C14_UploadFilename ==
    up.pc # "off" =>
        /\ GivenFilename = <<>> => SentFilename = FileTxt
        /\ (GivenFilename # <<>> /\ ~EndsInDotWord(GivenFilename))
              => SentFilename = GivenFilename \o DotTxt
        /\ EndsInDotWord(GivenFilename) => SentFilename = GivenFilename
        /\ SentFilename # <<>> /\ EndsInDotWord(SentFilename)

\* C14 amended: the Filename is sent unchanged only when the dot of its
\* extension follows a character that is not a dot; every other non-empty
\* Filename (".k", "k..k") gets ".txt" appended.
C14_UploadFilenameStem ==
    up.pc # "off" =>
        /\ GivenFilename = <<>> => SentFilename = FileTxt
        /\ (GivenFilename # <<>> /\ ~EndsInStemDotWord(GivenFilename))
              => SentFilename = GivenFilename \o DotTxt
        /\ EndsInStemDotWord(GivenFilename) => SentFilename = GivenFilename
        /\ SentFilename # <<>> /\ EndsInDotWord(SentFilename)

C14_Witness ==
    /\ up.pc = "sent"
    /\ GivenFilename = <<".", "k">>
    /\ SentFilename = <<".", "k", ".", "t", "x", "t">>

\* a read (Secret(id), also the one that ends a write) has returned a secret
ReadSucceeded == pc = "done" /\ result.err = "" /\ result.Fields # <<>>

\* the secondary GETs among the requests issued
FieldGets == { j \in 1..Len(reqs) : reqs[j].method = "GET" /\ Len(reqs[j].path) = 3 }

\* the record's field is one whose attachment Secret() is to download
HasAttachment(f) == f.IsFile /\ f.FileAttachmentID # 0 /\ f.Filename # ""

\* C15: a read that succeeds has issued, for every field of the record with
\* IsFile, a non-zero FileAttachmentID and a non-empty Filename, one GET of
\* secrets/{id}/fields/{slug}, and returns the content the server serves
\* there as the field's value, not the placeholder of the primary record.
C15_AttachmentsInlined ==
    ReadSucceeded =>
        \A k \in 1..Len(result.Fields) :
            HasAttachment(result.Fields[k]) =>
                /\ Cardinality({ j \in 1..Len(reqs) :
                        /\ reqs[j].method = "GET" /\ reqs[j].resource = "secrets"
                        /\ reqs[j].path = <<Itoa(writtenID), "fields", result.Fields[k].Slug>> }) = 1
                /\ result.Fields[k].ItemValue = srv.val[k]
                /\ result.Fields[k].ItemValue # Placeholder

C15_Witness ==
    /\ ReadSucceeded
    /\ method = "GET"
    /\ HasAttachment(result.Fields[1]) /\ HasAttachment(result.Fields[2])

\* a read has failed at a secondary GET, the one for rd[idx]
ReadFailedAtField ==
    /\ pc = "done" /\ result.err # ""
    /\ Len(reqs) \in FieldGets

\* C16: a call that fails returns no secret; when it is a secondary GET of
\* Secret(id) that failed, one secondary GET was issued for each attachment up
\* to the failing one and none for the fields after it.
C16_FailedReadReturnsNothing ==
    /\ (pc = "done" /\ result.err # "") => result.Fields = <<>>
    /\ ReadFailedAtField =>
          /\ idx \in 1..Len(rd) /\ HasAttachment(rd[idx])
          /\ Cardinality(FieldGets) = Cardinality({ k \in 1..idx : HasAttachment(rd[k]) })
          /\ \A k \in (idx + 1)..Len(rd) :
                \A j \in FieldGets : reqs[j].path[3] # rd[k].Slug

C16_Witness ==
    /\ ReadFailedAtField
    /\ idx = 1
    /\ HasAttachment(rd[2])

\* C17: a write that succeeds returns what Secret(id) read after the POST/PUT
\* and after every reconciliation request: the GET of secrets/{id} follows
\* them all, and each returned value is the one the server holds once they
\* are applied, the content of an attachment included.
C17_WriteReturnsReadAfterFiles ==
    WriteSucceeded =>
        /\ \E p \in 1..Len(reqs) :
              /\ reqs[p] = [method |-> "GET", resource |-> "secrets",
                            path |-> <<Itoa(writtenID)>>, kind |-> "none", body |-> <<>>]
              /\ \A j \in WriteReqs \cup ReconReqs : j < p
              /\ Cardinality(ReconReqs) = Len(fileFields)
        /\ \A k \in 1..Len(template) : result.Fields[k].ItemValue = srv.val[k]

C17_Witness ==
    /\ WriteSucceeded
    /\ ReconReqs # {}
    /\ \E k \in 1..Len(template) : template[k].IsFile /\ srv.val[k] = "x"

\* a write has failed at a reconciliation request, the one for fileFields[idx]
FilesFailed ==
    /\ pc = "done" /\ method \in {"POST", "PUT"} /\ result.err # ""
    /\ Len(reqs) \in ReconReqs

\* C18: file fields are reconciled in input order, one at a time: the k-th
\* reconciliation request is the one for the k-th retained file field and only
\* the last is outstanding; when the N-th fails the write returns the error,
\* nothing was requested for the fields after N, and the server holds what the
\* request before N wrote.
C18_FilesInOrder ==
    /\ pc = "files" => (idx >= 1 /\ Len(reqs) = idx + 2)
    /\ (pc = "files" \/ FilesFailed) =>
          \A k \in 1..idx : ReconFor(fileFields[k], reqs[k + 2])
    /\ FilesFailed =>
          /\ Len(reqs) = idx + 2
          /\ result.Fields = <<>>
          /\ idx >= 2 =>
                srv.val[FileFieldAt(template, fileFields[idx - 1].Slug)]
                    = fileFields[idx - 1].ItemValue

C18_Witness ==
    /\ FilesFailed
    /\ idx = 2
    /\ fileFields[1].ItemValue = "x" /\ fileFields[2].ItemValue = ""
    /\ srv.val[FileFieldAt(template, fileFields[1].Slug)] = "x"


\* C19: an accessResource call for a resource other than "secrets" and
\* "secret-templates" returns the "unknown resource" error having called
\* neither getAccessToken nor any endpoint.
C19_UnknownResourceFailsFast ==
    \A c \in Callers :
        (call[c].pc # "idle" /\ call[c].resource \notin {"secrets", "secret-templates"}) =>
            /\ call[c].pc = "done"
            /\ call[c].err = "unknown resource"
            /\ call[c].trace = <<>>
            /\ call[c].token = NoToken

C19_Witness ==
    \E c \in Callers :
        /\ call[c].pc = "done" /\ call[c].resource = "users"
        /\ cfg[c].Token = "" /\ env # EnvUnset

\* C20: the token getAccessToken returns from the cache was issued for the
\* base URL the calling Server targets.
C20_CacheKeyedByBaseURL ==
    \A c \in Callers :
        call[c].cached => call[c].token.by = cfg[c].ServerURL


\* SS_AT holds nothing, or the token of one grant with the expiry computed
\* from that same grant
SlotIntact ==
    \/ env.json = <<>>
    \/ /\ env.set /\ Len(env.json) = 1
       /\ \E n \in 1..Len(grants) :
             /\ env.json[1].AccessToken = grants[n].access_token
             /\ env.json[1].ExpiresIn =
                   (grants[n].at + grants[n].expires_in) - ((9 * grants[n].expires_in) \div 10)

\* getAccessToken has returned a token to the call from the cache or a grant
ReturnedGrantToken(c) ==
    /\ call[c].pc \in {"send", "done"}
    /\ call[c].err \in {"", ErrTransport}
    /\ cfg[c].Token = ""
    /\ call[c].token.n # 0

\* C21: under every interleaving of the calls that share SS_AT the slot holds
\* nothing or one complete (token, expiry) pair of a single grant, and the
\* token getAccessToken returns to a call is one the token endpoint of the
\* call's Server issued.
C21_BenignRace ==
    /\ SlotIntact
    /\ \A c \in Callers :
          ReturnedGrantToken(c) =>
              \E n \in 1..Len(grants) :
                  /\ grants[n].access_token = call[c].token
                  /\ call[c].token.by = cfg[c].ServerURL


\* the template's field IDs are pairwise distinct, and so are its slugs
UniqueTemplate(t) ==
    \A i, j \in 1..Len(t) :
        i # j => /\ t[i].SecretTemplateFieldID # t[j].SecretTemplateFieldID
                 /\ t[i].FieldSlugName # t[j].FieldSlugName

\* C22: on a template with unique IDs and unique slugs, FieldSlugToId of a
\* field's slug is (its ID, true) and FieldIdToSlug of a field's ID is (its
\* slug, true); an ID or slug no field carries is not found.
C22_LookupsInverse ==
    UniqueTemplate(q.t) =>
        /\ q.op = "FieldSlugToId" =>
              /\ \A i \in 1..Len(q.t) :
                    q.name = q.t[i].FieldSlugName =>
                        (q.out.found /\ q.out.id = q.t[i].SecretTemplateFieldID)
              /\ (\A i \in 1..Len(q.t) : q.name # q.t[i].FieldSlugName) => ~q.out.found
        /\ q.op = "FieldIdToSlug" =>
              /\ \A i \in 1..Len(q.t) :
                    q.id = q.t[i].SecretTemplateFieldID =>
                        (q.out.found /\ q.out.value = q.t[i].FieldSlugName)
              /\ (\A i \in 1..Len(q.t) : q.id # q.t[i].SecretTemplateFieldID) => ~q.out.found

C22_Witness ==
    /\ q.op = "FieldSlugToId"
    /\ UniqueTemplate(q.t) /\ Len(q.t) = 2
    /\ q.t[1].SecretTemplateFieldID = 2
    /\ q.name = q.t[2].FieldSlugName
    /\ q.out.found /\ q.out.id = 1

\* the positions of the fields the name (the ID) matches
NameMatches == { i \in 1..Len(q.fields) : q.name = q.fields[i].FieldName \/ q.name = q.fields[i].Slug }
IdMatches == { i \in 1..Len(q.fields) : q.id = q.fields[i].FieldID }

\* the least element of a non-empty set of positions
First(S) == CHOOSE i \in S : \A j \in S : i <= j

\* C23: Field(name) is found iff some field's FieldName or Slug is name, and
\* FieldById(id) iff some field's FieldID is id; the value returned is that of
\* the first such field, and "" when there is none.
C23_FieldAccessors ==
    /\ q.op = "Field" =>
          /\ q.out.found <=> NameMatches # {}
          /\ q.out.value = IF NameMatches # {} THEN q.fields[First(NameMatches)].ItemValue ELSE ""
    /\ q.op = "FieldById" =>
          /\ q.out.found <=> IdMatches # {}
          /\ q.out.value = IF IdMatches # {} THEN q.fields[First(IdMatches)].ItemValue ELSE ""

C23_Witness ==
    /\ q.op = "Field"
    /\ NameMatches = {1, 2}
    /\ q.fields[1].FieldName = q.name /\ q.fields[1].Slug # q.name
    /\ q.fields[1].ItemValue # q.fields[2].ItemValue
    /\ q.out.value = q.fields[1].ItemValue

\* C26: New returns an error and no Server iff ServerURL and Tenant are both
\* empty or both set; otherwise it returns a Server whose TLD, API path and
\* token path are the defaults (the paths without their leading slash) when
\* the Configuration left them empty.
C26_NewValidatesAndDefaults ==
    q.op = "New" =>
        LET both == q.config.ServerURL # "" /\ q.config.Tenant # ""
            none == q.config.ServerURL = "" /\ q.config.Tenant = ""
        IN  /\ (both \/ none) <=> (q.out.err # "" /\ q.out.server = <<>>)
            /\ ~(both \/ none) =>
                  /\ q.out.err = "" /\ Len(q.out.server) = 1
                  /\ q.out.server[1].ServerURL = q.config.ServerURL
                  /\ q.out.server[1].Tenant = q.config.Tenant
                  /\ q.config.TLD = "" => q.out.server[1].TLD = "com"
                  /\ q.config.apiPathURI = <<>> => q.out.server[1].apiPathURI = <<"api", "v1">>
                  /\ q.config.tokenPathURI = <<>> => q.out.server[1].tokenPathURI = <<"oauth2", "token">>

C26_Witness ==
    /\ q.op = "New"
    /\ q.config.ServerURL = "" /\ q.config.Tenant = "acme"
    /\ q.config.TLD = "" /\ q.config.apiPathURI = <<>>
    /\ q.out.err = "" /\ q.out.server[1].TLD = "com"

----------------------------------------------------------------------------
(* Update, delete, and the order and the errors of a write *)

UpdateSucceeded == method = "PUT" /\ pc = "done" /\ result.err = ""

\* the field carries the ID of the template field it resolves to
ByFieldID(t, f) == Defined(t, f) /\ t[DefOf(t, f)].SecretTemplateFieldID = f.FieldID

Deleted(id) == srv.ID # 0 /\ srv.ID = id /\ ~srv.Active

\* C25: a DeleteSecret(id) call issues one request, a DELETE of secrets/{id}
\* with no body, and once the server has served it a Secret(id) that returns
\* without error returns a secret that is not active.
C25_DeleteOnceThenInactive ==
    /\ method = "DELETE" =>
            /\ Len(reqs) = 1
            /\ reqs[1].method = "DELETE"
            /\ reqs[1].resource = "secrets"
            /\ reqs[1].path = <<Itoa(writtenID)>>
            /\ reqs[1].kind = "none"
    /\ (method = "GET" /\ pc = "done" /\ result.err = "" /\ Deleted(writtenID)) => ~result.Active

C25_Witness ==
    /\ method = "GET" /\ pc = "done" /\ result.err = ""
    /\ Deleted(writtenID)
    /\ result.Fields # <<>> /\ ~result.Active

WriteCall == method \in {"POST", "PUT"}

\* the call returned because a request of it, or the parse of its response, failed
WriteFailedAtRequest == WriteCall /\ pc = "done" /\ resp.err # ""

\* C27: when a request of a CreateSecret/UpdateSecret call fails (the template
\* GET, the POST/PUT, a reconciliation request or a GET of the re-fetch), the
\* call returns a nil secret and that very error, and the failed request is the
\* last one it issued; after a failed template GET no write request was sent.
C27_NoErrorSwallowedInWrite ==
    /\ WriteFailedAtRequest =>
            /\ result.err = resp.err
            /\ result = Returned(resp.err, <<>>, NoHead)
            /\ Len(reqs) = resp.of
            /\ resp.of = 1 => (reqs = <<TemplateGet>> /\ WriteReqs = {})
    /\ (WriteCall /\ pc = "done" /\ result.err = "") => resp.err = ""

C27_Witness ==
    /\ WriteFailedAtRequest
    /\ result.err = ErrTransport
    /\ Len(reqs) = 4
    /\ reqs[Len(reqs)].method = "GET"
    /\ ReconReqs # {}

\* the file fields of the caller's secret that the write retains, in input
\* order: none when a create asks for key generation
KeptOf(s) ==
    IF method = "POST" /\ KeyGeneration(s.SshKeyArgs) THEN <<>>
    ELSE SelectSeq(s.Fields, IsFileField)

\* C28: the requests of a successful CreateSecret/UpdateSecret are, in this
\* order: the template GET; one write, a POST to the secrets collection for a
\* create and a PUT to secrets/{secret.ID} for an update; one reconciliation
\* request for each retained file field, in input order; the GET of the
\* written secret and then the GETs of its attachments.
C28_RequestOrder ==
    WriteSucceeded =>
        LET kept == KeptOf(arg)
            n == Len(kept)
        IN  /\ Len(reqs) >= n + 3
            /\ reqs[1].method = "GET" /\ reqs[1].resource = "secret-templates"
            /\ reqs[1].path = <<Itoa(arg.SecretTemplateID)>>
            /\ reqs[2].method = method /\ reqs[2].resource = "secrets" /\ reqs[2].kind = "json"
            /\ reqs[2].path = IF method = "POST" THEN <<>> ELSE <<Itoa(arg.ID)>>
            /\ WriteReqs = {2}
            /\ ReconReqs = { k + 2 : k \in 1..n }
            /\ \A k \in 1..n : ReconFor(kept[k], reqs[k + 2])
            /\ reqs[n + 3].method = "GET" /\ reqs[n + 3].resource = "secrets"
            /\ reqs[n + 3].path = <<Itoa(writtenID)>>
            /\ \A j \in (n + 4)..Len(reqs) :
                    /\ reqs[j].method = "GET" /\ reqs[j].resource = "secrets"
                    /\ Len(reqs[j].path) = 3

C28_Witness ==
    /\ WriteSucceeded
    /\ method = "PUT"
    /\ Len(KeptOf(arg)) = 2
    /\ KeptOf(arg)[1].ItemValue = "" /\ KeptOf(arg)[2].ItemValue = "x"
    /\ Len(reqs) = 6

\* the body of the response to the POST/PUT did not parse
WriteUnparsable == WriteCall /\ pc = "done" /\ resp = [err |-> ErrParse, of |-> 2]

\* C29: when the body of the write response does not parse, the call returns
\* the parse error and no secret, the POST/PUT is its last request (no
\* reconciliation request, no re-fetch), and the server holds the secret it
\* was sent.
C29_UnparsableWriteResponse ==
    WriteUnparsable =>
        /\ result.err = ErrParse /\ result.Fields = <<>>
        /\ Len(reqs) = 2 /\ WriteReqs = {2}
        /\ ReconReqs = {}
        /\ \A j \in 1..Len(reqs) : ~(reqs[j].method = "GET" /\ reqs[j].resource = "secrets")
        /\ srv.ID # 0 /\ srv.Active
        /\ srv.ID = IF method = "POST" THEN NewID ELSE arg.ID
        /\ srv.FolderID = arg.FolderID /\ srv.SiteID = arg.SiteID

C29_Witness ==
    /\ WriteUnparsable
    /\ method = "POST"
    /\ fileFields # <<>> /\ fileFields[1].ItemValue = "x"
    /\ srv.ID = NewID

\* a CreateSecret whose directive asks for key generation
KeyGenerationCreate == method = "POST" /\ KeyGeneration(arg.SshKeyArgs)

\* C30: a CreateSecret that asks for key generation retains no file field:
\* updateFiles runs over an empty list, and the call issues no upload and no
\* PATCH, whatever file fields the caller's secret carries.
C30_KeyGenerationReconcilesNothing ==
    KeyGenerationCreate =>
        /\ fileFields = <<>>
        /\ pc # "files"
        /\ ReconReqs = {}
        /\ Uploads = {}

C30_Witness ==
    /\ KeyGenerationCreate
    /\ WriteSucceeded
    /\ Len(arg.Fields) = 2
    /\ IsFileField(arg.Fields[1]) /\ arg.Fields[1].ItemValue = "x"
    /\ IsFileField(arg.Fields[2]) /\ arg.Fields[2].ItemValue = ""
    /\ arg.Fields[1].Slug # "" /\ arg.Fields[2].Slug = ""

----------------------------------------------------------------------------
(* The caller's value, reads of any record, and the token cache *)

Downloads(o) == o.IsFile /\ o.FileAttachmentID # 0 /\ o.Filename # ""

\* a GET of secrets/{id}/fields/{slug} among the requests issued
FetchedSlug(slug) ==
    \E j \in 1..Len(reqs) : reqs[j].path = <<Itoa(writtenID), "fields", slug>>

\* a read of a record has returned without error
RecordRead == method = "GET" /\ pc = "done" /\ result.err = "" /\ held.record # <<>>

\* C33: Secret(id) issues no secondary GET for a field of the record whose
\* IsFile is false, whose FileAttachmentID is 0 or whose Filename is empty,
\* and returns that field as the record has it; a read that succeeds has
\* issued one GET plus one for each field that meets all three conditions.
C33_OtherFieldsUntouched ==
    /\ \A i \in 1..Len(held.record) :
            ~Downloads(held.record[i]) => ~FetchedSlug(held.record[i].Slug)
    /\ RecordRead =>
            /\ Len(result.Fields) = Len(held.record)
            /\ \A i \in 1..Len(held.record) :
                    ~Downloads(held.record[i]) => result.Fields[i] = held.record[i]
            /\ Len(reqs) = 1 + Cardinality({ i \in 1..Len(held.record) : Downloads(held.record[i]) })
            /\ \A j \in 1..Len(reqs) : reqs[j].method = "GET"

C33_Witness ==
    /\ RecordRead
    /\ Len(held.record) = 2
    /\ Downloads(held.record[1])
    /\ held.record[2].IsFile /\ held.record[2].FileAttachmentID # 0 /\ held.record[2].Filename = ""
    /\ held.record[2].ItemValue = "x" /\ result.Fields[2].ItemValue = "x"
    /\ result.Fields[1].ItemValue = Content
    /\ Len(reqs) = 2

\* an UpdateSecret with what Secret(id) returned is under way or has returned
ReadThenUpdate == method = "PUT" /\ held.record # <<>>

\* a PATCH that deletes the content of the file field with the slug
DeletingPatch(slug) ==
    \E j \in 1..Len(reqs) : reqs[j].method = "PATCH" /\ reqs[j].body[1].Slug = slug

\* C31: throughout an UpdateSecret that is given the unmodified result of
\* Secret(id), and after it, every attachment of the secret has the content it
\* had before: none is deleted, none is replaced by the placeholder of the
\* primary record.
C31_ReadThenUpdateKeepsFiles ==
    ReadThenUpdate =>
        \A k \in 1..Len(held.record) :
            (held.record[k].IsFile /\ held.record[k].FileAttachmentID # 0) =>
                /\ srv.val[k] = held.val[k]
                /\ srv.val[k] # Placeholder
                /\ ~DeletingPatch(held.record[k].Slug)

\* SS_AT holds a token whose stored expiry has not passed
CacheHit == env.set /\ env.json # <<>> /\ now < env.json[1].ExpiresIn

\* the call has contacted the health-check or the token endpoint
ContactedEndpoints(c) ==
    \E i \in 1..Len(call[c].trace) : call[c].trace[i].kind \in {"health", "token"}

\* C34: a getAccessToken of a Server without a static token returns the cached
\* token, contacting neither the health-check nor the token endpoint, when
\* SS_AT holds a token whose expiry has not passed, and goes on to the
\* endpoints otherwise; a call that was served from the cache has contacted
\* neither endpoint; a password grant that succeeds stores its token in SS_AT.
C34_CacheLazyThenReused ==
    /\ [](\A c \in Callers : call[c].cached => (~ContactedEndpoints(c) /\ cfg[c].Token = ""))
    /\ [][\A c \in Callers :
            /\ (call[c].pc = "token" /\ call'[c].pc # "token" /\ cfg[c].Token = "") =>
                    IF CacheHit
                    THEN /\ call'[c].pc = "send" /\ call'[c].cached
                         /\ call'[c].token = env.json[1].AccessToken
                    ELSE /\ call'[c].pc \in {"setenv", "health"}
                         /\ ~call'[c].cached
            /\ (call[c].pc = "grant" /\ call'[c].pc = "send") =>
                    /\ env'.set /\ env'.json # <<>>
                    /\ env'.json[1].AccessToken = call'[c].token
                    /\ Len(grants') = Len(grants) + 1
       ]_vars

\* a call was served the token an earlier call's grant had put in the cache
C34_Witness ==
    \E c \in Callers :
        /\ call[c].pc = "done" /\ call[c].cached /\ call[c].err = ""
        /\ Len(grants) = 1 /\ call[c].token = grants[1].access_token
        /\ Len(call[c].trace) = 2
        /\ now = 1

\* the grant that issued a token
GrantOf(token) == CHOOSE i \in 1..Len(grants) : grants[i].access_token = token

\* C35: the expiry stored in SS_AT is never later than the issue time of the
\* token plus the lifetime the server declared for it, and a token is returned
\* from the cache only at a time strictly before the stored expiry, hence
\* strictly before the end of its declared lifetime.
C35_NeverServedPastLifetime ==
    /\ [](env.json # <<>> =>
             LET g == grants[GrantOf(env.json[1].AccessToken)]
             IN  env.json[1].ExpiresIn <= g.at + g.expires_in)
    /\ [][\A c \in Callers :
            (~call[c].cached /\ call'[c].cached) =>
                LET g == grants[GrantOf(call'[c].token)]
                IN  /\ call'[c].token = env.json[1].AccessToken
                    /\ now < env.json[1].ExpiresIn
                    /\ now < g.at + g.expires_in
       ]_vars

\* a token with a declared lifetime of twenty seconds was served from the
\* cache, and the clock has since reached its stored expiry
C35_Witness ==
    \E c \in Callers :
        /\ call[c].cached
        /\ grants[GrantOf(call[c].token)].expires_in = 20
        /\ env.json # <<>> /\ env.json[1].AccessToken = call[c].token
        /\ now >= env.json[1].ExpiresIn

----------------------------------------------------------------------------
(* GeneratePassword *)

\* GeneratePassword was called with a slug its template does not define
UndefinedSlugCall ==
    /\ q.op = "GeneratePassword"
    /\ \A i \in 1..Len(q.t) : q.t[i].FieldSlugName # q.name

\* C36: GeneratePassword called with a slug that the template does not define
\* issues no request, and returns an error.
C36_UndefinedSlugFailsWithoutRequest ==
    UndefinedSlugCall =>
        /\ reqs = <<>>
        /\ pc = "returned" /\ q.out.err # ""

\* GeneratePassword has received the body q.fields of a successful response
PasswordBodyReceived == q.op = "GeneratePassword" /\ pc # "password" /\ q.out.err = ""

\* C37: for every body of a successful response GeneratePassword returns: the
\* body less its first and last byte when it has two bytes or more, and
\* without an out-of-range failure when it has fewer.
C37_PasswordForEveryBody ==
    PasswordBodyReceived =>
        /\ pc = "returned"
        /\ Len(q.fields) >= 2 =>
              /\ Len(q.out.value) = Len(q.fields) - 2
              /\ \A i \in 1..Len(q.out.value) : q.out.value[i] = q.fields[i + 1]

----------------------------------------------------------------------------
(* Templates with duplicate slugs *)

\* the position of the first field of the template with the slug, 0 for none
FirstWithSlug(t, slug) ==
    IF \E i \in 1..Len(t) : t[i].FieldSlugName = slug
    THEN CHOOSE i \in 1..Len(t) :
            /\ t[i].FieldSlugName = slug
            /\ \A j \in 1..(i - 1) : t[j].FieldSlugName # slug
    ELSE 0

\* the field is in the list
InList(field, list) == \E i \in 1..Len(list) : list[i] = field

\* C38: GetField returns the first field of the template that carries the
\* slug, FieldSlugToId the ID of that first field, and separateFileFields puts
\* a field addressed by a slug with the file fields exactly when the first
\* template field carrying the slug is a file field.
C38_FirstMatchWins ==
    /\ q.op = "GetField" =>
          /\ q.out.id = FirstWithSlug(q.t, q.name)
          /\ q.out.found <=> FirstWithSlug(q.t, q.name) # 0
    /\ q.op = "FieldSlugToId" =>
          /\ q.out.found <=> FirstWithSlug(q.t, q.name) # 0
          /\ q.out.found => q.out.id = q.t[FirstWithSlug(q.t, q.name)].SecretTemplateFieldID
    /\ (q.op = "separateFileFields" /\ q.out.err = "") =>
          \A i \in 1..Len(q.fields) :
              LET field == q.fields[i]
                  first == FirstWithSlug(q.t, field.Slug)
              IN  field.Slug # "" =>
                      /\ first # 0
                      /\ InList(field, q.out.file) <=> q.t[first].IsFile
                      /\ InList(field, q.out.nonFile) <=> ~q.t[first].IsFile

\* a field was classified by a slug that two template fields carry, the first
\* a general field and the second a file field
C38_Witness ==
    /\ q.op = "separateFileFields" /\ q.out.err = ""
    /\ Len(q.t) = 2
    /\ q.t[1].FieldSlugName = "a" /\ q.t[2].FieldSlugName = "a"
    /\ ~q.t[1].IsFile /\ q.t[2].IsFile
    /\ q.fields = << [FieldID |-> 0, Slug |-> "a", ItemValue |-> "x"] >>
    /\ q.out.file = <<>> /\ q.out.nonFile = q.fields

----------------------------------------------------------------------------
(* handleResponse *)

\* the call or the reading of the body failed underneath handleResponse
TransportFailed == q.err # "" \/ q.res.readErr # ""

\* the number of bytes of the body an error may hold
TruncatedLen == IF Len(q.res.Body) < 255 THEN Len(q.res.Body) ELSE 255

\* C39: handleResponse returns the body and no error exactly when nothing
\* failed underneath it and the status is in 200..299; on a failure underneath
\* it returns no data and that error; for any other status it returns no data
\* and an error that holds the status and the first 255 bytes of the body (the
\* whole body when it is shorter) and no byte of the body beyond them.
C39_HandleResponse ==
    q.op = "handleResponse" =>
        /\ (q.out.err = "" /\ ~q.out.data.nil /\ q.out.data.data = q.res.Body)
              <=> (~TransportFailed /\ q.res.StatusCode \in 200..299)
        /\ q.out.err # "" => q.out.data.nil
        /\ q.err # "" => q.out.err = q.err
        /\ (~TransportFailed /\ q.res.StatusCode \notin 200..299) =>
              /\ q.out.err = ErrStatus
              /\ q.out.of.status = q.res.StatusCode
              /\ Len(q.out.of.text) >= TruncatedLen
              /\ SubSeq(q.out.of.text, 1, TruncatedLen) = SubSeq(q.res.Body, 1, TruncatedLen)
              /\ \A i \in (TruncatedLen + 1)..Len(q.out.of.text) : q.out.of.text[i] = "."

\* a response with status 300 and a body of 256 bytes was turned into an error
C39_Witness ==
    /\ q.op = "handleResponse"
    /\ ~TransportFailed
    /\ q.res.StatusCode = 300 /\ Len(q.res.Body) = 256
    /\ q.out.err = ErrStatus /\ q.out.data.nil
    /\ Len(q.out.of.text) = 258

----------------------------------------------------------------------------
(* Termination and the number of requests *)

\* the number of requests of the call that satisfy P
RECURSIVE CountFrom(_, _)
CountFrom(P(_), i) ==
    IF i > Len(reqs) THEN 0
    ELSE (IF P(reqs[i]) THEN 1 ELSE 0) + CountFrom(P, i + 1)

IsTemplateGet(r) == r.method = "GET" /\ r.resource = "secret-templates"
IsWrite(r) == r.method \in {"POST", "PUT"} /\ r.resource = "secrets" /\ r.kind = "json"
IsFileRequest(r) == r.resource = "secrets" /\ (r.method = "PATCH" \/ r.kind = "multipart")
IsRead(r) == r.method = "GET" /\ r.resource = "secrets" /\ Len(r.path) = 1
IsDownload(r) == r.method = "GET" /\ r.resource = "secrets" /\ Len(r.path) = 3
IsDelete(r) == r.method = "DELETE"

\* the requests of the call so far stay within what the operation may issue
RequestsBounded ==
    /\ CountFrom(IsTemplateGet, 1) <= (IF method \in {"POST", "PUT"} THEN 1 ELSE 0)
    /\ CountFrom(IsWrite, 1) <= (IF method \in {"POST", "PUT"} THEN 1 ELSE 0)
    /\ CountFrom(IsFileRequest, 1) <= (IF method \in {"POST", "PUT"} THEN Len(fileFields) ELSE 0)
    /\ CountFrom(IsRead, 1) <= (IF method \in {"POST", "PUT", "GET"} THEN 1 ELSE 0)
    /\ CountFrom(IsDownload, 1) <= Len(rd)
    /\ CountFrom(IsDelete, 1) <= (IF method = "DELETE" THEN 1 ELSE 0)

\* one request at a time, and none after a request that failed
RequestsSequential ==
    /\ pc \notin {"idle", "done"} => resp.of = Len(reqs) - 1
    /\ pc = "done" => resp.of = Len(reqs)
    /\ resp.err # "" => pc = "done"

\* C40: with every transport call returning, a public operation that was
\* called returns; until then it has at most one request under way, issues
\* none after one that failed, and a write issues at most one template GET,
\* one POST or PUT of the secret, one request per retained file field and one
\* read with its downloads.
C40_EveryOperationReturns ==
    /\ [](RequestsBounded /\ RequestsSequential)
    /\ (pc # "idle") ~> (pc = "done")

\* an update with a retained file field has returned after its four requests
C40_Witness ==
    /\ method = "PUT" /\ pc = "done" /\ result.err = ""
    /\ Len(fileFields) = 1
    /\ Len(reqs) >= 4
    /\ CountFrom(IsFileRequest, 1) = 1

====
